---------------------------- MODULE Spec2Model ----------------------------
(***************************************************************************)
(* Authority-coordination protocol of the turn-based merge game            *)
(* (NetworkManager / GameSync / MultiplayerGame).                          *)
(*                                                                         *)
(* `room' is the session document held by the store.  Every participant    *)
(* keeps the last snapshot pushed to it (NetworkManager.currentRoomState)  *)
(* and acts on that snapshot; writes are partial-field merges applied to   *)
(* `room'; an async function that awaits a read before it writes is split  *)
(* at the await.  A snapshot push delivers the document as it is at the    *)
(* time of the push; a participant's own write is seen by it with the next *)
(* push.                                                                   *)
(*                                                                         *)
(* The module holds several specifications over the same variables, each   *)
(* tracking the fields of the document and of the participants that the    *)
(* handlers it covers read and write:                                      *)
(*   SpecRoster  turn order, turn index, participants map, authority flag  *)
(*   SpecDwell   the authority's frame loop and the match-end dwell timer  *)
(*   SpecDwellScenario  the dwell timer's regression scenario              *)
(*   SpecMerge   merge resolution on the authority and its score report    *)
(*   SpecDrop    launches, Drop Requests and speculative projectiles       *)
(*   SpecDropFair  SpecDrop with the requester's loop and pushes fair      *)
(*   SpecDropTrio  SpecDrop with three participants, from its second turn  *)
(*   SpecDropFailover  SpecDrop with the authority's connection dropping   *)
(*   SpecBridge  the events GameSync derives from a sequence of snapshots  *)
(*   SpecLobby   concurrent joinRoom calls on a session                    *)
(*   SpecTurn    the turn cycle with countdown, launch and turn advance    *)
(*   SpecTurnFair, SpecTurnLossy, SpecTurnRoster  SpecTurn with fair       *)
(*               timers, with a lost write, and with a changing roster     *)
(*   SpecEnd     SpecTurn with the end of the match and the slingshot      *)
(*   SpecSpawn, SpecSpawnFair  the sizes drawn for the pending spawn       *)
(*   SpecIndex   the turn index computed when participants are removed     *)
(*   SpecPhase   SpecTurnRoster for one launch more, launches by hand      *)
(***************************************************************************)
EXTENDS Integers, Sequences, FiniteSets, TLC

\* ------------------------------------------------------------ bounds
NumPlayers == 3
MaxTurns == 2
MaxFruitId == 5

P == 1..NumPlayers
FruitIds == 1..MaxFruitId

\* ------------------------------------------------------------ variables
VARIABLES
  room,                      \* RoomState: the session document in the store
  roomExists,                \* FALSE once remove(rooms/<id>) was applied
  conn,                      \* per participant: connected / leaving / left / disconnected
  currentRoomState,          \* NetworkManager.currentRoomState (= GameSync.currentRoom)
  lastEmittedTurnStartTime,  \* GameSync.lastEmittedTurnStartTime
  lastTurnStartTime,         \* MultiplayerGame.lastTurnStartTime
  turnPhase,                 \* MultiplayerGame.turnPhase
  leaveOp,                   \* leaveRoom() between its awaits
  cleanupOp,                 \* cleanupDisconnectedPlayers() between its awaits
  hostLost,                  \* history: authorities that disconnected abruptly
  isRunning,                 \* MultiplayerGame.isRunning (of the authority)
  frameCount,                \* MultiplayerGame.frameCount
  lastDropFrame,             \* MultiplayerGame.lastDropFrame
  gameOverTimer,             \* MultiplayerGame.gameOverTimer
  isOverLine,                \* MultiplayerGame.isOverLine
  launches,                  \* launches the authority has processed so far
  dwellStartDrop,            \* history: lastDropFrame when gameOverTimer last left zero
  fruits,                    \* per participant: MultiplayerGame.fruits, id -> size (0: none)
  mergedPairs,               \* MultiplayerGame.mergedPairs
  mergeTimers,               \* merge resolutions deferred with setTimeout(0)
  lastDropPlayerId,          \* MultiplayerGame.lastDropPlayerId (0: null)
  maxFruitSize,              \* MultiplayerGame.maxFruitSize
  deletedFruitIds,           \* MultiplayerGame.deletedFruitIds
  idCounter,                 \* the next fresh projectile id
  inbox,                     \* per participant: snapshots pushed and not yet received
  lastProcessedDropRequestId,\* GameSync.lastProcessedDropRequestId (0: null)
  pendingDropFruitId,        \* MultiplayerGame.pendingDropFruitId (0: null)
  pendingDropSynced,         \* MultiplayerGame.pendingDropSynced
  settleCheckTimer,          \* MultiplayerGame.settleCheckTimer
  dropEnabled,               \* MultiplayerGame.dropEnabled
  dropDelayTimer,            \* MultiplayerGame.dropDelayTimer is pending
  nullWrites,                \* awaited `set(currentFruit, null)' continuations
  reqCounter,                \* the next fresh Drop Request id
  syncs,                     \* broadcasts of the projectile map made so far
  materialised,              \* history: projectiles made per participant and request
  carried,                   \* history: snapshots with the request handled as authority
  tempIds,                   \* history: ids of the speculative projectiles made
  emitted,                   \* history: what the last GameSync.handleRoomUpdate emitted
  joinOp,                    \* per joiner: joinRoom() between its awaits
  timeRemaining,             \* MultiplayerGame.timeRemaining
  timerInterval,             \* MultiplayerGame.timerInterval is set
  launchLog,                 \* history: the launches made, in order
  advanceLog,                \* history: the turn-advance writes issued, in order
  lostStamp,                 \* history: turnStartTime in the store when a write was lost
  gameOvers,                 \* game_over events handled; MultiplayerGame.isRunning while 0
  slingshotPhase,            \* MultiplayerGame.slingshotPhase ("idle" or "pulling")
  spawnWritten,              \* history: the last write of currentFruit.size
  indexCase                  \* a roster change and the turn index computed for it

docVars == <<room, roomExists>>

rosterVars == <<conn, currentRoomState, lastEmittedTurnStartTime, lastTurnStartTime,
                turnPhase, leaveOp, cleanupOp, hostLost>>

dwellVars == <<isRunning, frameCount, lastDropFrame, gameOverTimer, isOverLine,
               launches, dwellStartDrop>>

mergeVars == <<fruits, mergedPairs, mergeTimers, lastDropPlayerId, maxFruitSize,
               deletedFruitIds, idCounter>>

launchVars == <<lastProcessedDropRequestId, pendingDropFruitId, pendingDropSynced,
                settleCheckTimer, dropEnabled, dropDelayTimer, nullWrites, reqCounter,
                materialised, carried, tempIds>>

dropVars == <<inbox, syncs, launchVars>>

bridgeVars == <<emitted>>

lobbyVars == <<joinOp>>

turnVars == <<timeRemaining, timerInterval, launchLog, advanceLog, lostStamp>>

endVars == <<gameOvers, slingshotPhase, spawnWritten, indexCase>>

vars == <<docVars, rosterVars, dwellVars, mergeVars, dropVars, bridgeVars, lobbyVars,
          turnVars, endVars>>

\* what the actions of SpecRoster, of SpecDwell, of SpecMerge and of SpecDrop leave alone
notRoster == <<dwellVars, mergeVars, dropVars, bridgeVars, lobbyVars, turnVars, endVars>>
notDwell == <<mergeVars, dropVars, bridgeVars, lobbyVars, turnVars, endVars>>
notMerge == <<launchVars, bridgeVars, lobbyVars, turnVars, endVars>>
notDrop == <<bridgeVars, lobbyVars, turnVars, endVars>>
notBridge == <<dwellVars, mergeVars, dropVars, lobbyVars, turnVars, endVars>>

\* ------------------------------------------------------------ sequences
\* Array.prototype.indexOf, 0-based, -1 when absent
IndexOf(s, x) ==
  IF \E i \in DOMAIN s : s[i] = x
  THEN (CHOOSE i \in DOMAIN s : s[i] = x /\ \A j \in 1..(i - 1) : s[j] # x) - 1
  ELSE -1

Max0(n) == IF n < 0 THEN 0 ELSE n

SetMin(S) == CHOOSE x \in S : \A y \in S : x <= y

Perms == {s \in [1..NumPlayers -> P] : \A i, j \in 1..NumPlayers : i # j => s[i] # s[j]}

\* ------------------------------------------------------------ participants map
Absent == [present |-> FALSE, id |-> 0, isHost |-> FALSE, score |-> 0]

\* the entry createRoom / joinRoom write
NewPlayer(p, host) == [present |-> TRUE, id |-> p, isHost |-> host, score |-> 0]

\* update(players/<q>, {isHost: true}) and update(room, {"players/<q>/isHost": true}):
\* a merge below the entry; on a missing entry it creates one that holds only the flag
SetHostFlag(players, q) ==
  [players EXCEPT ![q] = IF @.present THEN [@ EXCEPT !.isHost = TRUE]
                         ELSE [present |-> TRUE, id |-> 0, isHost |-> TRUE, score |-> 0]]

\* Object.keys(room.players)
ActiveKeys(r) == {q \in P : r.players[q].present}

HostKeys(r) == {q \in ActiveKeys(r) : r.players[q].isHost}

\* a variant of isHost under which every participant is the authority
isHostAnyone(r, me) == TRUE

\* NetworkManager.isHost: the first entry (key order) whose flag is set, compared by its id field
isHost(r, me) ==
  /\ HostKeys(r) # {}
  /\ r.players[SetMin(HostKeys(r))].id = me

hasNoHost(r) == HostKeys(r) = {}

FirstActive(r) ==
  LET act == SelectSeq(r.playerOrder, LAMBDA q : q \in ActiveKeys(r))
  IN IF Len(act) = 0 THEN 0 ELSE Head(act)

\* a variant that the code does not implement: anybody claims when no flag is set
anyoneBecomesHost(r, me) == hasNoHost(r)

shouldBecomeHost(r, me) == hasNoHost(r) /\ FirstActive(r) = me

\* GameSync.isMyTurn
isMyTurn(r, me) ==
  /\ r.currentPlayerIndex + 1 \in DOMAIN r.playerOrder
  /\ r.playerOrder[r.currentPlayerIndex + 1] = me


\* ------------------------------------------------------------ turn index arithmetic
\* a variant that the code does not implement: the turn index is written back
StayIndex(r) == r.currentPlayerIndex

\* NetworkManager.nextTurn: (currentPlayerIndex + 1) % (playerOrder?.length || 1)
NextIndex(r) ==
  (r.currentPlayerIndex + 1) % (IF Len(r.playerOrder) = 0 THEN 1 ELSE Len(r.playerOrder))

\* leaveRoom: index after the leaving id is filtered out of the order read
LeaveIndex(order, index, leaving) ==
  LET newOrder == SelectSeq(order, LAMBDA q : q # leaving)
      leavingIndex == IndexOf(order, leaving)
      adjusted == IF leavingIndex # -1 /\ leavingIndex <= index THEN Max0(index - 1) ELSE index
  IN adjusted % Len(newOrder)

\* cleanupDisconnectedPlayers: the for-loop over disconnectedPlayers
RECURSIVE CleanupAdjust(_, _, _)
CleanupAdjust(disconnected, order, index) ==
  IF Len(disconnected) = 0 THEN index
  ELSE LET disconnectedIndex == IndexOf(order, Head(disconnected))
       IN CleanupAdjust(Tail(disconnected), order,
                        IF disconnectedIndex # -1 /\ disconnectedIndex <= index
                        THEN Max0(index - 1) ELSE index)

CleanupIndex(order, index, active) ==
  LET newOrder == SelectSeq(order, LAMBDA q : q \in active)
      disconnected == SelectSeq(order, LAMBDA q : q \notin active)
  IN CleanupAdjust(disconnected, order, index) % Len(newOrder)

\* checkAndCleanupDisconnectedPlayers: playerOrder.some(id => !activePlayers.includes(id))
hasDisconnected(r) == \E i \in DOMAIN r.playerOrder : r.playerOrder[i] \notin ActiveKeys(r)

\* ------------------------------------------------------------ async operations at rest
IdleLeave == [pc |-> "idle", wasHost |-> FALSE, remove |-> FALSE,
              playerOrder |-> <<>>, currentPlayerIndex |-> 0]

IdleCleanup == [pc |-> "idle", remove |-> FALSE, playerOrder |-> <<>>,
                currentPlayerIndex |-> 0, needNewTurn |-> FALSE, maxFruitSize |-> 1]

\* what a participant that has gone keeps: nothing of it is read again
NoFruits == [i \in FruitIds |-> 0]

NoRequest == [id |-> 0, playerId |-> 0, size |-> 0]

NoRoom == [status |-> "none", players |-> [q \in P |-> Absent], playerOrder |-> <<>>,
           currentPlayerIndex |-> 0, turnStartTime |-> 0, currentFruit |-> FALSE,
           partyScore |-> 0, maxFruitSize |-> 1, fruits |-> NoFruits,
           dropRequest |-> NoRequest]

\* MultiplayerGame's projectile bookkeeping before any launch
MergeAtRest ==
  /\ fruits = [q \in P |-> NoFruits]
  /\ mergedPairs = [q \in P |-> {}]
  /\ mergeTimers = [q \in P |-> {}]
  /\ lastDropPlayerId = [q \in P |-> 0]
  /\ maxFruitSize = [q \in P |-> 1]
  /\ deletedFruitIds = [q \in P |-> {}]
  /\ idCounter = 1

\* GameSync's and MultiplayerGame's launch bookkeeping before any launch
DropAtRest ==
  /\ inbox = [q \in P |-> <<>>]
  /\ lastProcessedDropRequestId = [q \in P |-> 0]
  /\ pendingDropFruitId = [q \in P |-> 0]
  /\ pendingDropSynced = [q \in P |-> FALSE]
  /\ settleCheckTimer = [q \in P |-> 0]
  /\ dropEnabled = [q \in P |-> FALSE]
  /\ dropDelayTimer = [q \in P |-> FALSE]
  /\ nullWrites = [q \in P |-> 0]
  /\ reqCounter = 1
  /\ syncs = 0
  /\ materialised = [q \in P |-> [i \in FruitIds |-> 0]]
  /\ carried = [q \in P |-> [i \in FruitIds |-> 0]]
  /\ tempIds = [q \in P |-> {}]

\* nothing emitted yet
NoEvents == [turnStart |-> FALSE, stamp |-> 0, marker |-> 0, again |-> FALSE, total |-> 0]

BridgeAtRest == emitted = NoEvents

\* a roster change: the order and index read, the participants removed, and
\* the order and index written for it (by = "none": not computed)
NoCase == [order |-> <<>>, index |-> 0, removed |-> {}, by |-> "none",
           newOrder |-> <<>>, newIndex |-> 0]

IndexAtRest == indexCase = NoCase

\* every game object runs and no slingshot is pulled; startGame has written the
\* first pending spawn (size 1), every participant knowing no larger size than 1
EndAtRest ==
  /\ gameOvers = [q \in P |-> 0]
  /\ slingshotPhase = [q \in P |-> "idle"]
  /\ spawnWritten = [size |-> 1, known |-> 1, by |-> "startGame"]

\* participants that call joinRoom on a session that others already hold
MAX_PLAYERS == 10
NumJoiners == 2
Joiners == (MAX_PLAYERS + 1)..(MAX_PLAYERS + NumJoiners)
LobbyIds == 1..(MAX_PLAYERS + NumJoiners)

IdleJoin == [pc |-> "idle", playerOrder |-> <<>>, error |-> "none"]

LobbyAtRest == joinOp = [j \in Joiners |-> IdleJoin]

\* MultiplayerGame's countdown before any turn was armed
TURN_TIME == 10

TurnAtRest ==
  /\ timeRemaining = [q \in P |-> TURN_TIME]
  /\ timerInterval = [q \in P |-> FALSE]
  /\ launchLog = <<>>
  /\ advanceLog = <<>>
  /\ lostStamp = 0

\* ------------------------------------------------------------ SpecRoster
\* The session once startGame() has been applied and every participant has built
\* its GameSync and MultiplayerGame on the playing snapshot (game.start() runs
\* handleGameStart, which arms the first turn): the creator is the authority and
\* heads the turn order, the others joined in any order.
InitRoster ==
  /\ \E order \in Perms :
       room = [status |-> "playing",
               players |-> [q \in P |-> NewPlayer(q, q = order[1])],
               playerOrder |-> order,
               currentPlayerIndex |-> 0,
               turnStartTime |-> 1,
               currentFruit |-> TRUE,
               partyScore |-> 0,
               maxFruitSize |-> 1,
               fruits |-> NoFruits,
               dropRequest |-> NoRequest]
  /\ roomExists = TRUE
  /\ conn = [q \in P |-> "connected"]
  /\ currentRoomState = [q \in P |-> room]
  /\ lastEmittedTurnStartTime = [q \in P |-> 1]
  /\ lastTurnStartTime = [q \in P |-> 1]
  /\ turnPhase = [q \in P |-> "ready"]
  /\ leaveOp = [q \in P |-> IdleLeave]
  /\ cleanupOp = [q \in P |-> IdleCleanup]
  /\ hostLost = {}
  /\ isRunning = TRUE
  /\ frameCount = 0
  /\ lastDropFrame = 0
  /\ gameOverTimer = 0
  /\ isOverLine = FALSE
  /\ launches = 0
  /\ dwellStartDrop = 0
  /\ MergeAtRest
  /\ DropAtRest
  /\ BridgeAtRest
  /\ EndAtRest
  /\ IndexAtRest
  /\ LobbyAtRest
  /\ TurnAtRest

\* onValue push to p, then GameSync.handleRoomUpdate: room_update first
\* (MultiplayerGame.handleRoomUpdate: authority claim, or the authority's cleanup
\* check), then the turn_start derivation and MultiplayerGame.handleTurnStart.
RosterDeliver(p) ==
  /\ UNCHANGED notRoster
  /\ roomExists
  /\ conn[p] = "connected"
  /\ LET r == room
         promote == shouldBecomeHost(r, p)
         cleanup == ~promote /\ isHost(r, p) /\ hasDisconnected(r)
         emit == r.status = "playing" /\ r.currentFruit
                 /\ r.turnStartTime # lastEmittedTurnStartTime[p]
         handled == emit /\ r.turnStartTime # lastTurnStartTime[p]
                    /\ turnPhase[p] # "settling"
     IN /\ currentRoomState' = [currentRoomState EXCEPT ![p] = r]
        /\ room' = IF promote THEN [room EXCEPT !.players = SetHostFlag(@, p)] ELSE room
        /\ cleanupOp' = IF cleanup /\ cleanupOp[p].pc = "idle"
                        THEN [cleanupOp EXCEPT ![p].pc = "get"] ELSE cleanupOp
        /\ lastEmittedTurnStartTime' =
             IF emit THEN [lastEmittedTurnStartTime EXCEPT ![p] = r.turnStartTime]
             ELSE lastEmittedTurnStartTime
        /\ lastTurnStartTime' =
             IF handled THEN [lastTurnStartTime EXCEPT ![p] = r.turnStartTime]
             ELSE lastTurnStartTime
        /\ turnPhase' = IF handled THEN [turnPhase EXCEPT ![p] = "ready"] ELSE turnPhase
  /\ UNCHANGED <<roomExists, conn, leaveOp, hostLost>>

\* launchFruit as far as the turn state goes (its projectile and request writes
\* touch fields this specification does not track)
RosterLaunch(p) ==
  /\ UNCHANGED notRoster
  /\ conn[p] = "connected"
  /\ isMyTurn(currentRoomState[p], p)
  /\ turnPhase[p] = "ready"
  /\ turnPhase' = [turnPhase EXCEPT ![p] = "settling"]
  /\ UNCHANGED <<room, roomExists, conn, currentRoomState, lastEmittedTurnStartTime,
                 lastTurnStartTime, leaveOp, cleanupOp, hostLost>>

\* gameLoop settle check -> MultiplayerGame.nextTurn -> NetworkManager.nextTurn
RosterNextTurn(p) ==
  /\ UNCHANGED notRoster
  /\ roomExists
  /\ conn[p] = "connected"
  /\ turnPhase[p] = "settling"
  /\ isMyTurn(currentRoomState[p], p)
  /\ room.turnStartTime < MaxTurns
  /\ turnPhase' = [turnPhase EXCEPT ![p] = "waiting"]
  /\ room' = [room EXCEPT !.currentPlayerIndex = NextIndex(currentRoomState[p]),
                          !.turnStartTime = room.turnStartTime + 1,
                          !.currentFruit = TRUE]
  /\ UNCHANGED <<roomExists, conn, currentRoomState, lastEmittedTurnStartTime,
                 lastTurnStartTime, leaveOp, cleanupOp, hostLost>>

\* setupDisconnectHandler: onDisconnect(players/<p>).remove() fires when p's
\* connection drops; whatever p had in flight is lost with it
Disconnect(p) ==
  /\ UNCHANGED notRoster
  /\ roomExists
  /\ conn[p] # "disconnected"
  /\ conn' = [conn EXCEPT ![p] = "disconnected"]
  /\ room' = [room EXCEPT !.players[p] = Absent]
  /\ hostLost' = IF conn[p] = "connected" /\ isHost(room, p) THEN hostLost \cup {p}
                 ELSE hostLost
  /\ leaveOp' = [leaveOp EXCEPT ![p] = IdleLeave]
  /\ cleanupOp' = [cleanupOp EXCEPT ![p] = IdleCleanup]
  /\ currentRoomState' = [currentRoomState EXCEPT ![p] = NoRoom]
  /\ lastEmittedTurnStartTime' = [lastEmittedTurnStartTime EXCEPT ![p] = 0]
  /\ lastTurnStartTime' = [lastTurnStartTime EXCEPT ![p] = 0]
  /\ turnPhase' = [turnPhase EXCEPT ![p] = "waiting"]
  /\ UNCHANGED roomExists

\* leaveRoom up to its first await: wasHost, off(roomRef), remove(players/<p>)
LeaveStart(p) ==
  /\ UNCHANGED notRoster
  /\ roomExists
  /\ conn[p] = "connected"
  /\ conn' = [conn EXCEPT ![p] = "leaving"]
  /\ room' = [room EXCEPT !.players[p] = Absent]
  /\ leaveOp' = [leaveOp EXCEPT ![p] = [IdleLeave EXCEPT !.pc = "get",
                                         !.wasHost = isHost(currentRoomState[p], p)]]
  /\ currentRoomState' = [currentRoomState EXCEPT ![p] = NoRoom]
  /\ lastEmittedTurnStartTime' = [lastEmittedTurnStartTime EXCEPT ![p] = 0]
  /\ lastTurnStartTime' = [lastTurnStartTime EXCEPT ![p] = 0]
  /\ turnPhase' = [turnPhase EXCEPT ![p] = "waiting"]
  /\ UNCHANGED <<roomExists, cleanupOp, hostLost>>

\* leaveRoom: get(room) and what it computes from the state read
LeaveGet(p) ==
  /\ UNCHANGED notRoster
  /\ roomExists
  /\ leaveOp[p].pc = "get"
  /\ LET newPlayerOrder == SelectSeq(room.playerOrder, LAMBDA q : q # p)
     IN leaveOp' = [leaveOp EXCEPT ![p] =
          IF Len(newPlayerOrder) = 0
          THEN [@ EXCEPT !.pc = "update", !.remove = TRUE]
          ELSE [@ EXCEPT !.pc = "update", !.remove = FALSE,
                         !.playerOrder = newPlayerOrder,
                         !.currentPlayerIndex =
                            LeaveIndex(room.playerOrder, room.currentPlayerIndex, p)]]
  /\ UNCHANGED <<room, roomExists, conn, currentRoomState, lastEmittedTurnStartTime,
                 lastTurnStartTime, turnPhase, cleanupOp, hostLost>>

\* leaveRoom: remove(room), or update(room, {playerOrder, currentPlayerIndex,
\* players/<newPlayerOrder[0]>/isHost when the leaver was the authority})
LeaveUpdate(p) ==
  /\ UNCHANGED notRoster
  /\ roomExists
  /\ leaveOp[p].pc = "update"
  /\ IF leaveOp[p].remove
     THEN /\ roomExists' = FALSE
          /\ room' = room
     ELSE /\ roomExists' = roomExists
          /\ room' = [room EXCEPT
                !.playerOrder = leaveOp[p].playerOrder,
                !.currentPlayerIndex = leaveOp[p].currentPlayerIndex,
                !.players = IF leaveOp[p].wasHost
                            THEN SetHostFlag(@, leaveOp[p].playerOrder[1]) ELSE @]
  /\ conn' = [conn EXCEPT ![p] = "left"]
  /\ leaveOp' = [leaveOp EXCEPT ![p] = IdleLeave]
  /\ UNCHANGED <<currentRoomState, lastEmittedTurnStartTime, lastTurnStartTime,
                 turnPhase, cleanupOp, hostLost>>

\* cleanupDisconnectedPlayers: get(room) and what it computes from the state read
CleanupGet(p) ==
  /\ UNCHANGED notRoster
  /\ roomExists
  /\ cleanupOp[p].pc = "get"
  /\ LET active == ActiveKeys(room)
         newPlayerOrder == SelectSeq(room.playerOrder, LAMBDA q : q \in active)
         currentTurnPlayer ==
           IF room.currentPlayerIndex + 1 \in DOMAIN room.playerOrder
           THEN room.playerOrder[room.currentPlayerIndex + 1] ELSE 0
     IN cleanupOp' = [cleanupOp EXCEPT ![p] =
          IF ~hasDisconnected(room) THEN IdleCleanup
          ELSE IF Len(newPlayerOrder) = 0
          THEN [IdleCleanup EXCEPT !.pc = "update", !.remove = TRUE]
          ELSE [IdleCleanup EXCEPT
                  !.pc = "update",
                  !.playerOrder = newPlayerOrder,
                  !.currentPlayerIndex =
                     CleanupIndex(room.playerOrder, room.currentPlayerIndex, active),
                  !.needNewTurn = currentTurnPlayer \notin active
                                  /\ room.status = "playing",
                  !.maxFruitSize = room.maxFruitSize]]
  /\ UNCHANGED <<room, roomExists, conn, currentRoomState, lastEmittedTurnStartTime,
                 lastTurnStartTime, turnPhase, leaveOp, hostLost>>

\* cleanupDisconnectedPlayers: remove(room), or update(room, {playerOrder,
\* currentPlayerIndex, turnStartTime and currentFruit when a new turn is needed})
CleanupWritten(p) ==
  /\ roomExists
  /\ cleanupOp[p].pc = "update"
  /\ IF cleanupOp[p].remove
     THEN /\ roomExists' = FALSE
          /\ room' = room
     ELSE /\ roomExists' = roomExists
          /\ room' = [room EXCEPT
                !.playerOrder = cleanupOp[p].playerOrder,
                !.currentPlayerIndex = cleanupOp[p].currentPlayerIndex,
                !.turnStartTime = IF cleanupOp[p].needNewTurn THEN @ + 1 ELSE @,
                !.currentFruit = IF cleanupOp[p].needNewTurn THEN TRUE ELSE @]
  /\ cleanupOp' = [cleanupOp EXCEPT ![p] = IdleCleanup]
  /\ UNCHANGED <<conn, currentRoomState, lastEmittedTurnStartTime, lastTurnStartTime,
                 turnPhase, leaveOp, hostLost>>

CleanupUpdate(p) == UNCHANGED notRoster /\ CleanupWritten(p)

NextRoster ==
  \E p \in P :
    \/ RosterDeliver(p)
    \/ RosterLaunch(p)
    \/ RosterNextTurn(p)
    \/ Disconnect(p)
    \/ LeaveStart(p)
    \/ LeaveGet(p)
    \/ LeaveUpdate(p)
    \/ CleanupGet(p)
    \/ CleanupUpdate(p)

SpecRoster == InitRoster /\ [][NextRoster]_vars

\* ------------------------------------------------------------ claims on SpecRoster

\* C1: in every reachable state of the session document, under any interleaving
\* of turn-advance writes, explicit leaves and authority cleanup writes issued
\* from possibly stale snapshots, 0 <= currentPlayerIndex < playerOrder.length.
C1_TurnIndexInRange ==
  roomExists =>
    /\ 0 <= room.currentPlayerIndex
    /\ room.currentPlayerIndex < Len(room.playerOrder)

\* C4: in every reachable state in which the session status is playing, at most
\* one entry of the participants map has the authority flag (isHost) set.
C4_AtMostOneHostFlag ==
  (roomExists /\ room.status = "playing") => Cardinality(HostKeys(room)) <= 1

\* every step the store and the connected participants still owe: a snapshot
\* push that differs from what the participant holds or that makes it act, and
\* the awaited reads and writes of leaveRoom / cleanupDisconnectedPlayers
RosterSettled ==
  /\ \A p \in P : leaveOp[p].pc = "idle" /\ cleanupOp[p].pc = "idle"
  /\ \A p \in P : conn[p] = "connected" =>
        /\ currentRoomState[p] = room
        /\ ~shouldBecomeHost(room, p)
        /\ ~(isHost(room, p) /\ hasDisconnected(room))

\* C5: if the authority disconnects abruptly while the session is playing and at
\* least one other participant remains connected, then eventually exactly one
\* remaining participant has the authority flag true and the turn order no
\* longer contains the disconnected participant's id.  Stated on the states in
\* which nothing is left to propagate: there the outcome must have been reached.
C5_FailoverConverges ==
  (/\ roomExists
   /\ room.status = "playing"
   /\ hostLost # {}
   /\ \E p \in P : conn[p] = "connected"
   /\ RosterSettled)
  => /\ Cardinality({p \in P : conn[p] = "connected" /\ room.players[p].present
                               /\ room.players[p].isHost}) = 1
     /\ \A h \in hostLost : \A i \in DOMAIN room.playerOrder : room.playerOrder[i] # h

\* C10: in every reachable state of the session document, every id in the turn
\* order is a key of the participants map.
C10_OrderOnlyPresent ==
  roomExists => \A i \in DOMAIN room.playerOrder : room.playerOrder[i] \in ActiveKeys(room)

\* C20: a participant issues an authority claim only when its latest snapshot
\* holds no participant with the authority flag and it is the first id of the
\* turn order that is still in the participants map; no snapshot held by a
\* participant makes two participants satisfy that precondition.  A claim is the
\* step that sets the flag of p in the document outside of leaveRoom.
C20_ClaimOnlyByFirstSurvivor ==
  /\ [][\A p \in P :
          (room'.players[p].isHost /\ ~room.players[p].isHost /\ leaveOp' = leaveOp)
          => /\ hasNoHost(currentRoomState'[p])
             /\ p \in ActiveKeys(currentRoomState'[p])
             /\ FirstActive(currentRoomState'[p]) = p]_vars
  /\ [](\A p \in P :
          Cardinality({q \in P : shouldBecomeHost(currentRoomState[p], q)}) <= 1)

\* the authority was lost and a participant has just claimed authority: its flag
\* is set in the document, and the snapshot it acted on shows no authority and
\* another id, no longer present, ahead of it in the turn order
C20_Witness ==
  /\ hostLost # {}
  /\ \E p \in P :
       /\ conn[p] = "connected"
       /\ room.players[p].present /\ room.players[p].isHost
       /\ hasNoHost(currentRoomState[p])
       /\ FirstActive(currentRoomState[p]) = p
       /\ currentRoomState[p].playerOrder[1] # p

\* C21: authority absence is always self-healed: while the session is playing
\* and some participant is connected, eventually some connected participant
\* evaluates itself as the authority on its latest snapshot.  Stated on the states
\* in which nothing is left to propagate: there the authority must exist.
C21_AuthoritySelfHealed ==
  (/\ roomExists
   /\ room.status = "playing"
   /\ \E p \in P : conn[p] = "connected"
   /\ RosterSettled)
  => \E p \in P : conn[p] = "connected" /\ isHost(currentRoomState[p], p)

\* ============================================================ SpecDwell
\* The frame loop of one participant with the match-end dwell timer.  Whether some
\* projectile is over the line and nearly motionless in a frame is the outcome
\* of the physics step and is an input of the frame; a launch may be processed
\* between any two frames.

GAME_OVER_CHECK_FRAMES == 120
DROP_GRACE_FRAMES == 180

MaxFrame == 300
MaxLaunches == 1
Authority == 1

\* variants of the grace test that updateGameOverCheck does not implement
graceNever(frame, dropFrame) == FALSE
graceShort(frame, dropFrame) == frame - dropFrame < GAME_OVER_CHECK_FRAMES
graceOneFrame(frame, dropFrame) == frame - dropFrame < 1

graceActive(frame, dropFrame) == frame - dropFrame < DROP_GRACE_FRAMES

\* gameOverTimer after updateGameOverCheck
TimerAfter(timer, overLine, grace) ==
  IF overLine
    THEN IF timer > 0 THEN timer + 1
         ELSE IF ~grace THEN 1 ELSE timer
    ELSE 0

SoloRoom ==
  [status |-> "playing",
   players |-> [q \in P |-> IF q = Authority THEN NewPlayer(q, TRUE) ELSE Absent],
   playerOrder |-> <<Authority>>,
   currentPlayerIndex |-> 0,
   turnStartTime |-> 1,
   currentFruit |-> TRUE,
   partyScore |-> 0,
   maxFruitSize |-> 1,
   fruits |-> NoFruits,
   dropRequest |-> NoRequest]

\* the session in which the participant whose loop is modelled is a guest: the
\* host flag is on the other participant of the order
GuestRoom ==
  [SoloRoom EXCEPT !.players = [q \in P |-> IF q = Authority THEN NewPlayer(q, FALSE)
                                            ELSE IF q = 2 THEN NewPlayer(q, TRUE)
                                            ELSE Absent],
                   !.playerOrder = <<2, Authority>>,
                   !.currentPlayerIndex = 1]

DwellRooms == {SoloRoom, GuestRoom}

RosterAtRestIn(r) ==
  /\ conn = [q \in P |-> IF q = Authority THEN "connected" ELSE "left"]
  /\ currentRoomState = [q \in P |-> IF q = Authority THEN r ELSE NoRoom]
  /\ lastEmittedTurnStartTime = [q \in P |-> IF q = Authority THEN 1 ELSE 0]
  /\ lastTurnStartTime = [q \in P |-> IF q = Authority THEN 1 ELSE 0]
  /\ turnPhase = [q \in P |-> IF q = Authority THEN "ready" ELSE "waiting"]
  /\ leaveOp = [q \in P |-> IdleLeave]
  /\ cleanupOp = [q \in P |-> IdleCleanup]
  /\ hostLost = {}

RosterAtRest ==
  /\ conn = [q \in P |-> IF q = Authority THEN "connected" ELSE "left"]
  /\ currentRoomState = [q \in P |-> IF q = Authority THEN SoloRoom ELSE NoRoom]
  /\ lastEmittedTurnStartTime = [q \in P |-> IF q = Authority THEN 1 ELSE 0]
  /\ lastTurnStartTime = [q \in P |-> IF q = Authority THEN 1 ELSE 0]
  /\ turnPhase = [q \in P |-> IF q = Authority THEN "ready" ELSE "waiting"]
  /\ leaveOp = [q \in P |-> IdleLeave]
  /\ cleanupOp = [q \in P |-> IdleCleanup]
  /\ hostLost = {}

InitDwell ==
  /\ room \in DwellRooms
  /\ roomExists = TRUE
  /\ RosterAtRestIn(room)
  /\ isRunning = TRUE
  /\ frameCount = 0
  /\ lastDropFrame = 0
  /\ gameOverTimer = 0
  /\ isOverLine = FALSE
  /\ launches = 0
  /\ dwellStartDrop = 0
  /\ MergeAtRest
  /\ DropAtRest
  /\ BridgeAtRest
  /\ EndAtRest
  /\ IndexAtRest
  /\ LobbyAtRest
  /\ TurnAtRest

\* gameLoop: one animation frame, ending in updateGameOverCheck, which returns
\* at once on a participant that does not evaluate itself as the authority
Frame(overLine) ==
  /\ UNCHANGED notDwell
  /\ isRunning
  /\ frameCount < MaxFrame
  /\ frameCount' = frameCount + 1
  /\ LET host == isHost(currentRoomState[Authority], Authority)
         grace == graceActive(frameCount', lastDropFrame)
         timer == IF host THEN TimerAfter(gameOverTimer, overLine, grace)
                          ELSE gameOverTimer
     IN /\ gameOverTimer' = timer
        /\ isOverLine' = IF ~host THEN isOverLine
                           ELSE IF overLine
                             THEN IF gameOverTimer > 0 \/ ~grace THEN TRUE ELSE isOverLine
                             ELSE FALSE
        /\ dwellStartDrop' = IF gameOverTimer = 0 /\ timer > 0
                               THEN lastDropFrame ELSE dwellStartDrop
        /\ room' = IF host /\ overLine /\ timer >= GAME_OVER_CHECK_FRAMES
                     THEN [room EXCEPT !.status = "ended"] ELSE room
  /\ UNCHANGED <<roomExists, rosterVars, isRunning, lastDropFrame, launches>>

\* launchFruit / handleDropRequest on the authority: the launch is stamped with
\* the current frame
DwellLaunch ==
  /\ UNCHANGED notDwell
  /\ isRunning
  /\ room.status = "playing"
  /\ launches < MaxLaunches
  /\ lastDropFrame' = frameCount
  /\ launches' = launches + 1
  /\ UNCHANGED <<docVars, rosterVars, isRunning, frameCount, gameOverTimer, isOverLine,
                 dwellStartDrop>>

\* the snapshot with status = ended comes back: game_over, handleGameOver
DwellGameOver ==
  /\ UNCHANGED notDwell
  /\ isRunning
  /\ room.status = "ended"
  /\ isRunning' = FALSE
  /\ currentRoomState' = [currentRoomState EXCEPT ![Authority] = room]
  /\ UNCHANGED <<docVars, conn, lastEmittedTurnStartTime, lastTurnStartTime, turnPhase,
                 leaveOp, cleanupOp, hostLost, frameCount, lastDropFrame, gameOverTimer,
                 isOverLine, launches, dwellStartDrop>>

NextDwell ==
  \/ \E overLine \in BOOLEAN : Frame(overLine)
  \/ DwellLaunch
  \/ DwellGameOver

SpecDwell == InitDwell /\ [][NextDwell]_vars

\* ------------------------------------------------------------ claims on SpecDwell

C27_DwellTimerStartsAndResets ==
  [][/\ (gameOverTimer = 0 /\ gameOverTimer' > 0)
          => /\ frameCount' = frameCount + 1
             /\ isOverLine'
             /\ frameCount' - lastDropFrame >= 180
     /\ (gameOverTimer > 0 /\ lastDropFrame' # lastDropFrame)
          => gameOverTimer' = gameOverTimer
     /\ (gameOverTimer > 0 /\ frameCount' # frameCount)
          => /\ gameOverTimer' = 0 <=> ~isOverLine'
             /\ gameOverTimer' # 0 => gameOverTimer' = gameOverTimer + 1]_vars

\* the timer was running when a launch was processed and has counted on, inside
\* the grace window of that launch
C27_Witness ==
  /\ launches > 0
  /\ gameOverTimer > 1
  /\ frameCount > lastDropFrame + 1
  /\ frameCount - lastDropFrame < 180

\* C28: status = ended is written only by a participant that evaluates itself
\* as the authority, on a frame with a projectile over the line in which its
\* dwell timer, after counting that frame, is at least GAME_OVER_CHECK_FRAMES
\* (120); a participant that is not the authority never writes it.
C28_EndedOnlyByAuthorityAtThreshold ==
  [][(room.status # "ended" /\ room'.status = "ended")
       => /\ isHost(currentRoomState[Authority], Authority)
          /\ currentRoomState[Authority].players[Authority].isHost
          /\ frameCount' = frameCount + 1
          /\ isOverLine'
          /\ gameOverTimer' >= 120
          /\ gameOverTimer' = gameOverTimer + 1]_vars

\* the authority has written ended at the threshold
C28_Witness ==
  /\ room.status = "ended"
  /\ isHost(currentRoomState[Authority], Authority)
  /\ gameOverTimer = 120

\* a guest's loop has run past the grace window and the threshold and its
\* timer has not moved
C28_GuestWitness ==
  /\ ~isHost(currentRoomState[Authority], Authority)
  /\ frameCount = MaxFrame
  /\ gameOverTimer = 0
  /\ room.status = "playing"

\* ============================================================ SpecDwellScenario
\* The regression scenario of the dwell timer: one launch processed at frame 0,
\* no further launch, and from frame QualifyFrame on some projectile is over the
\* line and nearly motionless in every frame.

QualifyFrame == 10

InitDwellScenario ==
  /\ room = SoloRoom
  /\ roomExists = TRUE
  /\ RosterAtRest
  /\ isRunning = TRUE
  /\ frameCount = 0
  /\ lastDropFrame = 0
  /\ gameOverTimer = 0
  /\ isOverLine = FALSE
  /\ launches = 1
  /\ dwellStartDrop = 0
  /\ MergeAtRest
  /\ DropAtRest
  /\ BridgeAtRest
  /\ EndAtRest
  /\ IndexAtRest
  /\ LobbyAtRest
  /\ TurnAtRest

NextDwellScenario ==
  \/ Frame(frameCount + 1 >= QualifyFrame)
  \/ DwellGameOver

SpecDwellScenario == InitDwellScenario /\ [][NextDwellScenario]_vars

\* ------------------------------------------------------------ claims on SpecDwellScenario

\* C7 as stated: in the scenario the dwell timer does not reach the threshold
\* before frame QualifyFrame + grace + threshold (10 + 180 + 120).
C7_NotBeforeQualifyPlusGracePlusThreshold ==
  gameOverTimer >= GAME_OVER_CHECK_FRAMES
    => frameCount >= QualifyFrame + DROP_GRACE_FRAMES + GAME_OVER_CHECK_FRAMES

\* C7: in the scenario the dwell timer does not reach the threshold before frame
\* grace + threshold - 1 counted from the launch (0 + 180 + 120 - 1 = 299): the
\* grace window runs from the launch, not from the frame in which the qualifying
\* projectile appears, and the frame that starts the timer counts as its first.
C7_NotBeforeLaunchPlusGracePlusThreshold ==
  gameOverTimer >= GAME_OVER_CHECK_FRAMES
    => frameCount >= lastDropFrame + DROP_GRACE_FRAMES + GAME_OVER_CHECK_FRAMES - 1

\* the threshold is reached in the scenario, at the earliest frame the bound allows
C7_Witness ==
  /\ launches = 1
  /\ lastDropFrame = 0
  /\ gameOverTimer = GAME_OVER_CHECK_FRAMES
  /\ frameCount = DROP_GRACE_FRAMES + GAME_OVER_CHECK_FRAMES - 1
  /\ room.status = "ended"

\* ============================================================ SpecMerge
\* Merge resolution on the authority and the score it reports.  The session
\* holds the authority and one more participant; the authority's world starts
\* with InitFruits projectiles of any sizes a game can produce, already
\* broadcast to the store.  A contact between two projectiles is the outcome of
\* the physics step and is an input.  Every write of the authority is pushed
\* back to it as a snapshot, which it receives in order, some time later.

MAX_FRUIT_SIZE == 10
InitFruits == 3

\* the authority writes while fewer than MaxLag snapshots pushed to it wait to
\* be received
MaxLag == 4

\* merges resolved in a run, each followed by its broadcast, at most
MaxMergeSyncs == 3

\* FRUIT_DATA[i].score, i = size - 1
FRUIT_SCORE == <<0, 10, 30, 80, 150, 250, 400, 600, 850, 1200>>

\* FRUIT_DATA[size - 1]?.score || 0
Score(size) == IF size \in DOMAIN FRUIT_SCORE THEN FRUIT_SCORE[size] ELSE 0

\* sizes of live projectiles: launched with 1..5, grown by merges, and a merge
\* whose result would have size MAX_FRUIT_SIZE leaves no projectile
LiveSizes == 1..(MAX_FRUIT_SIZE - 1)

Larger(a, b) == IF a > b THEN a ELSE b

LargestOf(S) == CHOOSE x \in S : \A y \in S : y <= x

\* update(rooms/<id>, {partyScore, players/<q>/score})
SetScore(players, q, score) ==
  [players EXCEPT ![q] = IF @.present THEN [@ EXCEPT !.score = score]
                         ELSE [present |-> TRUE, id |-> 0, isHost |-> FALSE, score |-> score]]

\* syncAllFruits: every local projectile written, every deleted id removed
SyncedFruits(remote, local, deleted) ==
  [i \in FruitIds |-> IF i \in deleted THEN 0
                      ELSE IF local[i] > 0 THEN local[i] ELSE remote[i]]

\* a variant that the code does not implement: the broadcast as a full overwrite
\* of the document with the snapshot the authority holds
BroadcastOverwriting(doc, held, local, deleted) ==
  [held EXCEPT !.fruits = SyncedFruits(@, local, deleted)]

\* syncAllFruits: update(rooms/<id>/fruits, ...), a merge below the projectile map
Broadcast(doc, held, local, deleted) ==
  [doc EXCEPT !.fruits = SyncedFruits(@, local, deleted)]

\* addNewFruitsFromRemote: remote projectiles the authority does not hold
AddedFromRemote(local, remote, deleted) ==
  [i \in FruitIds |-> IF local[i] = 0 /\ remote[i] > 0 /\ i \notin deleted
                        THEN remote[i] ELSE local[i]]

DuoRoom(sizes) ==
  [status |-> "playing",
   players |-> [q \in P |-> IF q = Authority THEN NewPlayer(q, TRUE)
                            ELSE IF q = 2 THEN NewPlayer(q, FALSE) ELSE Absent],
   playerOrder |-> <<Authority, 2>>,
   currentPlayerIndex |-> 0,
   turnStartTime |-> 1,
   currentFruit |-> TRUE,
   partyScore |-> 0,
   maxFruitSize |-> 1,
   fruits |-> sizes,
   dropRequest |-> NoRequest]

DuoAtRest(r) ==
  /\ conn = [q \in P |-> IF q \in {Authority, 2} THEN "connected" ELSE "left"]
  /\ currentRoomState = [q \in P |-> IF q \in {Authority, 2} THEN r ELSE NoRoom]
  /\ lastEmittedTurnStartTime = [q \in P |-> IF q \in {Authority, 2} THEN 1 ELSE 0]
  /\ lastTurnStartTime = [q \in P |-> IF q \in {Authority, 2} THEN 1 ELSE 0]
  /\ turnPhase = [q \in P |-> IF q \in {Authority, 2} THEN "ready" ELSE "waiting"]
  /\ leaveOp = [q \in P |-> IdleLeave]
  /\ cleanupOp = [q \in P |-> IdleCleanup]
  /\ hostLost = {}

DwellAtRest ==
  /\ isRunning = TRUE
  /\ frameCount = 0
  /\ lastDropFrame = 0
  /\ gameOverTimer = 0
  /\ isOverLine = FALSE
  /\ launches = 0
  /\ dwellStartDrop = 0

InitMerge ==
  \E sizes \in [1..InitFruits -> LiveSizes], launcher \in {0, Authority, 2} :
    LET held == [i \in FruitIds |-> IF i <= InitFruits THEN sizes[i] ELSE 0]
    IN /\ room = DuoRoom(held)
       /\ roomExists = TRUE
       /\ DuoAtRest(room)
       /\ DwellAtRest
       /\ DropAtRest
       /\ BridgeAtRest
       /\ EndAtRest
       /\ IndexAtRest
       /\ LobbyAtRest
       /\ TurnAtRest
       /\ fruits = [q \in P |-> held]
       /\ mergedPairs = [q \in P |-> {}]
       /\ mergeTimers = [q \in P |-> {}]
       /\ lastDropPlayerId = [q \in P |-> IF q = Authority THEN launcher ELSE 0]
       /\ maxFruitSize = [q \in P |-> LargestOf({sizes[i] : i \in 1..InitFruits})]
       /\ deletedFruitIds = [q \in P |-> {}]
       /\ idCounter = InitFruits + 1

\* a variant that the code does not implement: the deferred resolution goes on
\* whatever has become of the two projectiles
bodyNeverMissing(local, a, b) == FALSE

\* the deferred resolution: !bodyA || !bodyB
bodyMissing(local, a, b) == local[a] = 0 \/ local[b] = 0

\* handleCollision: a contact of two projectiles of equal size, seen by the authority
Collide(a, b) ==
  /\ UNCHANGED notMerge
  /\ a < b
  /\ isHost(currentRoomState[Authority], Authority)
  /\ fruits[Authority][a] > 0
  /\ fruits[Authority][a] = fruits[Authority][b]
  /\ {a, b} \notin mergedPairs[Authority]
  /\ mergedPairs' = [mergedPairs EXCEPT ![Authority] = @ \cup {{a, b}}]
  /\ mergeTimers' = [mergeTimers EXCEPT ![Authority] = @ \cup {<<a, b>>}]
  /\ UNCHANGED <<docVars, rosterVars, dwellVars, fruits, lastDropPlayerId, maxFruitSize,
                 deletedFruitIds, idCounter, inbox, syncs>>

\* the deferred resolution of the contact (a, b): both projectiles removed, the
\* merged one made, the score reported (one write) and the projectile map
\* broadcast (the next write), each write pushed as a snapshot
ResolveMerge(a, b) ==
  /\ UNCHANGED notMerge
  /\ <<a, b>> \in mergeTimers[Authority]
  /\ mergeTimers' = [mergeTimers EXCEPT ![Authority] = @ \ {<<a, b>>}]
  /\ mergedPairs' = [mergedPairs EXCEPT ![Authority] = @ \ {{a, b}}]
  /\ LET local == fruits[Authority]
         snap == currentRoomState[Authority]
         host == isHost(snap, Authority)
         launcher == lastDropPlayerId[Authority]
         newSize == local[a] + 1
         burst == newSize >= MAX_FRUIT_SIZE
         scoreGain == IF burst THEN Score(MAX_FRUIT_SIZE) ELSE Score(newSize)
         reported == launcher # 0 /\ host /\ snap.players[launcher].present
         removed == IF host THEN deletedFruitIds[Authority] \cup {a, b}
                    ELSE deletedFruitIds[Authority]
         merged == [i \in FruitIds |->
                      IF i \in {a, b} THEN 0
                      ELSE IF i = idCounter /\ ~burst THEN newSize ELSE local[i]]
         scored == [room EXCEPT
                      !.partyScore = IF reported THEN snap.partyScore + scoreGain ELSE @,
                      !.players = IF reported
                                    THEN SetScore(@, launcher,
                                                  snap.players[launcher].score + scoreGain)
                                    ELSE @]
         synced == [scored EXCEPT
                      !.fruits = IF host THEN SyncedFruits(@, merged, removed) ELSE @]
     IN IF bodyMissing(local, a, b)
          THEN UNCHANGED <<room, fruits, maxFruitSize, deletedFruitIds, idCounter, inbox,
                           syncs>>
          ELSE /\ idCounter <= MaxFruitId \/ burst
               /\ Len(inbox[Authority]) < MaxLag
               /\ syncs < MaxMergeSyncs
               /\ syncs' = syncs + 1
               /\ fruits' = [fruits EXCEPT ![Authority] = merged]
               /\ idCounter' = IF burst THEN idCounter ELSE idCounter + 1
               /\ maxFruitSize' =
                    [maxFruitSize EXCEPT ![Authority] =
                       Larger(@, IF burst THEN MAX_FRUIT_SIZE ELSE newSize)]
               /\ deletedFruitIds' =
                    [deletedFruitIds EXCEPT ![Authority] = IF host THEN {} ELSE removed]
               /\ room' = synced
               /\ inbox' = [inbox EXCEPT ![Authority] =
                              @ \o (IF reported THEN <<scored>> ELSE <<>>)
                                \o (IF host THEN <<synced>> ELSE <<>>)]
  /\ UNCHANGED <<roomExists, rosterVars, dwellVars, lastDropPlayerId>>

\* the next snapshot pushed to the authority is received: handleRoomUpdate,
\* addNewFruitsFromRemote
MergeDeliver ==
  /\ UNCHANGED notMerge
  /\ inbox[Authority] # <<>>
  /\ inbox' = [inbox EXCEPT ![Authority] = Tail(@)]
  /\ UNCHANGED syncs
  /\ LET r == Head(inbox[Authority])
     IN /\ currentRoomState' = [currentRoomState EXCEPT ![Authority] = r]
        /\ maxFruitSize' = [maxFruitSize EXCEPT ![Authority] = Larger(@, r.maxFruitSize)]
        /\ IF isHost(r, Authority)
             THEN /\ fruits' = [fruits EXCEPT ![Authority] =
                                  AddedFromRemote(@, r.fruits, deletedFruitIds[Authority])]
                  /\ deletedFruitIds' = [deletedFruitIds EXCEPT ![Authority] =
                                           {i \in @ : r.fruits[i] > 0}]
             ELSE UNCHANGED <<fruits, deletedFruitIds>>
  /\ UNCHANGED <<docVars, conn, lastEmittedTurnStartTime, lastTurnStartTime, turnPhase,
                 leaveOp, cleanupOp, hostLost, dwellVars, mergedPairs, mergeTimers,
                 lastDropPlayerId, idCounter>>

\* a variant that the code does not implement: the spawn size has no cap
SpawnSizesUncapped(largest) == 1..(IF largest - 1 < 1 THEN 1 ELSE largest - 1)

\* getNextFruitSize: the sizes a spawn can have
SpawnSizes(largest) == 1..(IF largest - 1 < 1 THEN 1 ELSE IF largest - 1 > 5 THEN 5
                                                             ELSE largest - 1)

\* the authority processes a launch of q (launchFruit for its own, handleDropRequest
\* for another participant's) as far as projectiles and scoring go: the projectile
\* is made and written, and q becomes the last launcher
MergeLaunch(q, size) ==
  /\ UNCHANGED notMerge
  /\ isHost(currentRoomState[Authority], Authority)
  /\ launches < MaxLaunches
  /\ idCounter <= MaxFruitId
  /\ size \in SpawnSizes(maxFruitSize[Authority])
  /\ launches' = launches + 1
  /\ lastDropFrame' = frameCount
  /\ lastDropPlayerId' = [lastDropPlayerId EXCEPT ![Authority] = q]
  /\ fruits' = [fruits EXCEPT ![Authority][idCounter] = size]
  /\ idCounter' = idCounter + 1
  /\ room' = [room EXCEPT !.fruits[idCounter] = size]
  /\ Len(inbox[Authority]) < MaxLag
  /\ inbox' = [inbox EXCEPT ![Authority] = Append(@, room')]
  /\ UNCHANGED syncs
  /\ UNCHANGED <<roomExists, rosterVars, isRunning, frameCount, gameOverTimer, isOverLine,
                 dwellStartDrop, mergedPairs, mergeTimers, maxFruitSize, deletedFruitIds>>

NextMerge ==
  \/ \E a, b \in FruitIds : Collide(a, b)
  \/ \E a, b \in FruitIds : ResolveMerge(a, b)
  \/ MergeDeliver
  \/ \E q \in {Authority, 2}, size \in 1..5 : MergeLaunch(q, size)

SpecMerge == InitMerge /\ [][NextMerge]_vars

\* ------------------------------------------------------------ claims on SpecMerge

\* C3: every resolved merge of two projectiles of equal size S removes both
\* sources and, if S < MAX_FRUIT_SIZE, produces exactly one projectile of size
\* S + 1; if S = MAX_FRUIT_SIZE it produces none and the session score grows by
\* the score of the MAX rank.
C3_MergeProducesNextSize ==
  [][\A a, b \in FruitIds :
       (/\ <<a, b>> \in mergeTimers[Authority]
        /\ <<a, b>> \notin mergeTimers'[Authority]
        /\ fruits[Authority][a] > 0
        /\ fruits[Authority][b] > 0)
       => LET S == fruits[Authority][a]
              produced == {i \in FruitIds : fruits[Authority][i] = 0
                                             /\ fruits'[Authority][i] > 0}
          IN /\ fruits'[Authority][a] = 0
             /\ fruits'[Authority][b] = 0
             /\ IF S < MAX_FRUIT_SIZE
                  THEN /\ Cardinality(produced) = 1
                       /\ \A i \in produced : fruits'[Authority][i] = S + 1
                  ELSE /\ produced = {}
                       /\ room'.partyScore = room.partyScore + Score(MAX_FRUIT_SIZE)]_vars

\* C8: every merge that produces a projectile of size N adds the configured
\* score of size N to the stored session score and to the stored score of the
\* last launcher, whatever snapshot the authority holds when it resolves the
\* merge; so k merges add the sum of their k values.
C8_MergeAddsConfiguredScore ==
  [][(/\ idCounter' # idCounter
      /\ mergeTimers'[Authority] # mergeTimers[Authority]
      /\ lastDropPlayerId[Authority] # 0)
       => LET N == fruits'[Authority][idCounter]
              launcher == lastDropPlayerId[Authority]
          IN /\ room'.partyScore = room.partyScore + Score(N)
             /\ room'.players[launcher].score = room.players[launcher].score + Score(N)]_vars

RECURSIVE SumOfScores(_, _)
SumOfScores(players, keys) ==
  IF keys = {} THEN 0
  ELSE LET q == CHOOSE x \in keys : TRUE
       IN players[q].score + SumOfScores(players, keys \ {q})

\* C12: in every reachable state during play the session score (partyScore)
\* equals the sum of the scores of all participants, under any sequence of
\* merges credited to possibly different last launchers.
C12_PartyScoreIsSum ==
  room.status = "playing" => room.partyScore = SumOfScores(room.players, ActiveKeys(room))

\* the merge of the contact (a, b) is resolved in this step
Resolved(a, b) ==
  /\ <<a, b>> \in mergeTimers[Authority]
  /\ <<a, b>> \notin mergeTimers'[Authority]
  /\ fruits[Authority][a] > 0
  /\ fruits[Authority][b] > 0

\* C25: the authority never adds back a projectile it has removed from its
\* world by a merge or a burst, whatever snapshot arrives afterwards.  Every id
\* below idCounter has been in the authority's world, so one that is not there
\* was removed by a merge.
C25_NoResurrection ==
  [][\A i \in FruitIds :
       (i < idCounter /\ fruits[Authority][i] = 0) => fruits'[Authority][i] = 0]_vars

\* C29: every merge or burst the authority resolves credits its score to the
\* participant whose launch the authority processed last, and so to some
\* participant.  Stated for resolutions made on an up-to-date snapshot, where
\* the score written is the stored score plus the gain.
C29_MergeCreditsLastLauncher ==
  [][\A a, b \in FruitIds :
       (Resolved(a, b) /\ currentRoomState[Authority] = room)
       => \E q \in P :
            /\ q = lastDropPlayerId[Authority]
            /\ room'.players[q].score > room.players[q].score
            /\ \A o \in P \ {q} : room'.players[o].score = room.players[o].score]_vars

\* projectiles the step removes from, and adds to, the authority's world
RemovedByStep == {i \in FruitIds : fruits[Authority][i] > 0 /\ fruits'[Authority][i] = 0}
ProducedByStep == {i \in FruitIds : fruits[Authority][i] = 0 /\ fruits'[Authority][i] > 0}

SETTLE_FRAMES == 15
MaxSyncs == 1
MaxLaunchTurns == 1
Requester == 2

\* variants that the code does not implement: a request surfaced whatever id was
\* processed last, and a turn start that leaves the speculative projectile alone
anyRequest(id, lastProcessed) == TRUE
KeepTemp(local, pending) == local

\* GameSync.handleRoomUpdate: room.dropRequest.id !== this.lastProcessedDropRequestId
isNewRequest(id, lastProcessed) == id # lastProcessed

\* handleTurnStart: the speculative projectile of the previous turn is removed
WithoutTemp(local, pending) == [i \in FruitIds |-> IF i = pending THEN 0 ELSE local[i]]

\* syncFruitsFromRemote: local projectiles after mirroring the remote map
SyncedFromRemote(local, remote, pending, synced) ==
  [i \in FruitIds |->
     IF remote[i] > 0 THEN (IF local[i] > 0 THEN local[i] ELSE remote[i])
     ELSE IF i = pending /\ ~synced THEN local[i] ELSE 0]

Saturating(n) == IF n >= 2 THEN 2 ELSE n + 1

\* the snapshots `rooms' pushed to every subscribed participant
Pushed(box, rooms) ==
  [q \in P |-> IF conn[q] = "connected" THEN box[q] \o rooms ELSE box[q]]

InitDrop ==
  \E order \in {<<Authority, Requester>>, <<Requester, Authority>>} :
    /\ room = [DuoRoom(NoFruits) EXCEPT !.playerOrder = order]
    /\ roomExists = TRUE
    /\ DuoAtRest(room)
    /\ DwellAtRest
    /\ MergeAtRest
    /\ BridgeAtRest
    /\ EndAtRest
    /\ IndexAtRest
    /\ LobbyAtRest
    /\ TurnAtRest
    /\ inbox = [q \in P |-> <<>>]
    /\ lastProcessedDropRequestId = [q \in P |-> 0]
    /\ pendingDropFruitId = [q \in P |-> 0]
    /\ pendingDropSynced = [q \in P |-> FALSE]
    /\ settleCheckTimer = [q \in P |-> 0]
    /\ dropEnabled = [q \in P |-> FALSE]
    /\ dropDelayTimer = [q \in P |-> q = order[1]]
    /\ nullWrites = [q \in P |-> 0]
    /\ reqCounter = 1
    /\ syncs = 0
    /\ materialised = [q \in P |-> [i \in FruitIds |-> 0]]
    /\ carried = [q \in P |-> [i \in FruitIds |-> 0]]
    /\ tempIds = [q \in P |-> {}]

\* GameSync.handleRoomUpdate with the handlers of the events it derives, for the
\* snapshot r received by p; `rest' is what stays in p's inbox
DropHandle(p, r, rest) ==
  LET host == isHost(r, p)
      local == fruits[p]
      pend == pendingDropFruitId[p]
      deleted == deletedFruitIds[p]
      \* room_update: MultiplayerGame.handleRoomUpdate; it returns after the
      \* authority claim, else the authority adds and checks the roster, and
      \* anybody else mirrors
      promote == shouldBecomeHost(r, p)
      mirror == ~promote /\ ~host
      cleanup == ~promote /\ host /\ hasDisconnected(r)
      remoteCount == Cardinality({i \in FruitIds : r.fruits[i] > 0})
      synced1 == IF mirror /\ pend # 0 /\ ~pendingDropSynced[p] /\ remoteCount > 0
                   THEN TRUE ELSE pendingDropSynced[p]
      fruits1 == IF promote THEN local
                 ELSE IF host THEN AddedFromRemote(local, r.fruits, deleted)
                 ELSE SyncedFromRemote(local, r.fruits, pend, synced1)
      pend1 == IF mirror /\ pend # 0 /\ local[pend] > 0 /\ r.fruits[pend] = 0 /\ synced1
                 THEN 0 ELSE pend
      deleted1 == IF host THEN {i \in deleted : r.fruits[i] > 0} ELSE deleted
      \* turn_start: handleTurnStart
      emitTurn == /\ r.status = "playing"
                  /\ r.currentFruit
                  /\ r.turnStartTime # lastEmittedTurnStartTime[p]
      handled == /\ emitTurn
                 /\ r.turnStartTime # lastTurnStartTime[p]
                 /\ turnPhase[p] # "settling"
      fruits2 == IF handled /\ pend1 # 0 THEN WithoutTemp(fruits1, pend1) ELSE fruits1
      pend2 == IF handled THEN 0 ELSE pend1
      synced2 == IF handled /\ pend1 # 0 THEN FALSE ELSE synced1
      \* drop_request: handleDropRequest
      req == r.dropRequest
      emitDrop == /\ host
                  /\ req.id # 0
                  /\ isNewRequest(req.id, lastProcessedDropRequestId[p])
      fruits3 == IF emitDrop THEN [fruits2 EXCEPT ![idCounter] = req.size] ELSE fruits2
      added == [room EXCEPT !.fruits[idCounter] = req.size]
      cleared == [added EXCEPT !.dropRequest = NoRequest]
      claimed == [room EXCEPT !.players = SetHostFlag(@, p)]
  IN /\ UNCHANGED notDrop
     /\ emitDrop => idCounter <= MaxFruitId
     /\ cleanupOp' = IF cleanup /\ cleanupOp[p].pc = "idle"
                      THEN [cleanupOp EXCEPT ![p].pc = "get"] ELSE cleanupOp
     /\ currentRoomState' = [currentRoomState EXCEPT ![p] = r]
     /\ maxFruitSize' = [maxFruitSize EXCEPT ![p] = Larger(@, r.maxFruitSize)]
     /\ deletedFruitIds' = [deletedFruitIds EXCEPT ![p] = deleted1]
     /\ lastEmittedTurnStartTime' =
          [lastEmittedTurnStartTime EXCEPT ![p] = IF emitTurn THEN r.turnStartTime ELSE @]
     /\ lastTurnStartTime' =
          [lastTurnStartTime EXCEPT ![p] = IF handled THEN r.turnStartTime ELSE @]
     /\ turnPhase' = [turnPhase EXCEPT ![p] = IF handled THEN "ready" ELSE @]
     /\ settleCheckTimer' = [settleCheckTimer EXCEPT ![p] = IF handled THEN 0 ELSE @]
     /\ dropEnabled' = [dropEnabled EXCEPT ![p] = IF handled THEN FALSE ELSE @]
     /\ dropDelayTimer' = [dropDelayTimer EXCEPT ![p] = IF handled THEN isMyTurn(r, p) ELSE @]
     /\ pendingDropFruitId' = [pendingDropFruitId EXCEPT ![p] = pend2]
     /\ pendingDropSynced' = [pendingDropSynced EXCEPT ![p] = synced2]
     /\ fruits' = [fruits EXCEPT ![p] = fruits3]
     /\ carried' = [carried EXCEPT ![p] =
                      IF host /\ req.id # 0 THEN [@ EXCEPT ![req.id] = Saturating(@)] ELSE @]
     /\ IF emitDrop
          THEN /\ lastProcessedDropRequestId' =
                    [lastProcessedDropRequestId EXCEPT ![p] = req.id]
               /\ lastDropFrame' = frameCount
               /\ lastDropPlayerId' = [lastDropPlayerId EXCEPT ![p] = req.playerId]
               /\ idCounter' = idCounter + 1
               /\ materialised' = [materialised EXCEPT ![p][req.id] = @ + 1]
               /\ room' = cleared
               /\ inbox' = Pushed([inbox EXCEPT ![p] = rest], <<added, cleared>>)
               /\ nullWrites' = [nullWrites EXCEPT ![p] = @ + 1]
          ELSE /\ room' = IF promote THEN claimed ELSE room
               /\ inbox' = IF promote THEN Pushed([inbox EXCEPT ![p] = rest], <<claimed>>)
                            ELSE [inbox EXCEPT ![p] = rest]
               /\ UNCHANGED <<lastProcessedDropRequestId, lastDropFrame, lastDropPlayerId,
                              idCounter, materialised, nullWrites>>
     /\ UNCHANGED <<roomExists, conn, leaveOp, hostLost, isRunning, frameCount,
                    gameOverTimer, isOverLine, launches, dwellStartDrop, mergedPairs,
                    mergeTimers, reqCounter, syncs, tempIds>>

\* the next snapshot pushed to p is received
DropDeliver(p) ==
  /\ conn[p] = "connected"
  /\ inbox[p] # <<>>
  /\ DropHandle(p, Head(inbox[p]), Tail(inbox[p]))

\* the store pushes again the state p already holds
DropRedeliver(p) ==
  /\ conn[p] = "connected"
  /\ DropHandle(p, currentRoomState[p], inbox[p])

\* the launch-enable delay of the handled turn start elapses (or the countdown
\* of the turn expires, which enables the launch and forces it)
DropDelay(p) ==
  /\ UNCHANGED notDrop
  /\ conn[p] = "connected"
  /\ dropDelayTimer[p]
  /\ dropDelayTimer' = [dropDelayTimer EXCEPT ![p] = FALSE]
  /\ dropEnabled' = [dropEnabled EXCEPT ![p] = TRUE]
  /\ UNCHANGED <<docVars, rosterVars, dwellVars, mergeVars, inbox,
                 lastProcessedDropRequestId, pendingDropFruitId, pendingDropSynced,
                 settleCheckTimer, nullWrites, reqCounter, syncs, materialised, carried,
                 tempIds>>

\* a variant that the code does not implement: a launch before it is enabled
launchUnlessBusy(mine, phase, enabled) == mine /\ phase = "ready"

\* launchFruit: if (!isMyTurn || turnPhase !== 'ready' || !dropEnabled) return
launchAccepted(mine, phase, enabled) == mine /\ phase = "ready" /\ enabled

\* launchFruit, in one of the first `turns' turns
DropLaunchIn(p, turns) ==
  /\ UNCHANGED notDrop
  /\ conn[p] = "connected"
  /\ launchAccepted(isMyTurn(currentRoomState[p], p), turnPhase[p], dropEnabled[p])
  /\ currentRoomState[p].turnStartTime <= turns
  /\ dropDelayTimer' = [dropDelayTimer EXCEPT ![p] = FALSE]
  /\ dropEnabled' = [dropEnabled EXCEPT ![p] = FALSE]
  /\ turnPhase' = [turnPhase EXCEPT ![p] = "settling"]
  /\ settleCheckTimer' = [settleCheckTimer EXCEPT ![p] = 0]
  /\ fruits' = [fruits EXCEPT ![p][idCounter] = 1]
  /\ idCounter' = idCounter + 1
  /\ nullWrites' = [nullWrites EXCEPT ![p] = @ + 1]
  /\ IF isHost(currentRoomState[p], p)
       THEN /\ idCounter <= MaxFruitId
            /\ lastDropFrame' = frameCount
            /\ lastDropPlayerId' = [lastDropPlayerId EXCEPT ![p] = p]
            /\ room' = [room EXCEPT !.fruits[idCounter] = 1]
            /\ UNCHANGED <<pendingDropFruitId, pendingDropSynced, reqCounter, tempIds>>
       ELSE /\ idCounter < MaxFruitId
            /\ pendingDropFruitId' = [pendingDropFruitId EXCEPT ![p] = idCounter]
            /\ pendingDropSynced' = [pendingDropSynced EXCEPT ![p] = FALSE]
            /\ tempIds' = [tempIds EXCEPT ![p] = @ \cup {idCounter}]
            /\ room' = [room EXCEPT
                          !.dropRequest = [id |-> reqCounter, playerId |-> p, size |-> 1]]
            /\ reqCounter' = reqCounter + 1
            /\ UNCHANGED <<lastDropFrame, lastDropPlayerId>>
  /\ inbox' = Pushed(inbox, <<room'>>)
  /\ UNCHANGED <<roomExists, conn, currentRoomState, lastEmittedTurnStartTime,
                 lastTurnStartTime, leaveOp, cleanupOp, hostLost, isRunning, frameCount,
                 gameOverTimer, isOverLine, launches, dwellStartDrop, mergedPairs,
                 mergeTimers, maxFruitSize, deletedFruitIds, lastProcessedDropRequestId,
                 syncs, materialised, carried>>

DropLaunch(p) == DropLaunchIn(p, MaxLaunchTurns)

\* the write awaited by dropFruit / requestDropWithVelocity is done: the pending
\* spawn is cleared
NullWrite(p) ==
  /\ UNCHANGED notDrop
  /\ conn[p] = "connected"
  /\ nullWrites[p] > 0
  /\ nullWrites' = [nullWrites EXCEPT ![p] = @ - 1]
  /\ room' = [room EXCEPT !.currentFruit = FALSE]
  /\ inbox' = IF room' # room THEN Pushed(inbox, <<room'>>) ELSE inbox
  /\ UNCHANGED <<roomExists, rosterVars, dwellVars, mergeVars, lastProcessedDropRequestId,
                 pendingDropFruitId, pendingDropSynced, settleCheckTimer, dropEnabled,
                 dropDelayTimer, reqCounter, syncs, materialised, carried, tempIds>>

\* gameLoop: a frame of a participant that waits for its projectile to settle;
\* after more than SETTLE_FRAMES frames it advances the turn
DropFrame(p) ==
  /\ UNCHANGED notDrop
  /\ conn[p] = "connected"
  /\ turnPhase[p] = "settling"
  /\ isMyTurn(currentRoomState[p], p)
  /\ IF settleCheckTimer[p] + 1 > SETTLE_FRAMES
       THEN /\ settleCheckTimer' = [settleCheckTimer EXCEPT ![p] = 0]
            /\ turnPhase' = [turnPhase EXCEPT ![p] = "waiting"]
            /\ room' = [room EXCEPT !.currentPlayerIndex = NextIndex(currentRoomState[p]),
                                    !.turnStartTime = @ + 1,
                                    !.currentFruit = TRUE]
            /\ inbox' = Pushed(inbox, <<room'>>)
       ELSE /\ settleCheckTimer' = [settleCheckTimer EXCEPT ![p] = @ + 1]
            /\ UNCHANGED <<room, turnPhase, inbox>>
  /\ UNCHANGED <<roomExists, conn, currentRoomState, lastEmittedTurnStartTime,
                 lastTurnStartTime, leaveOp, cleanupOp, hostLost, dwellVars, mergeVars,
                 lastProcessedDropRequestId, pendingDropFruitId, pendingDropSynced,
                 dropEnabled, dropDelayTimer, nullWrites, reqCounter, syncs, materialised,
                 carried, tempIds>>

\* gameLoop on the authority, every SYNC_INTERVAL frames: syncFruitsToServer
HostSync(p) ==
  /\ UNCHANGED notDrop
  /\ conn[p] = "connected"
  /\ isHost(currentRoomState[p], p)
  /\ syncs < MaxSyncs
  /\ syncs' = syncs + 1
  /\ room' = Broadcast(room, currentRoomState[p], fruits[p], deletedFruitIds[p])
  /\ deletedFruitIds' = [deletedFruitIds EXCEPT ![p] = {}]
  /\ inbox' = Pushed(inbox, <<room'>>)
  /\ UNCHANGED <<roomExists, rosterVars, dwellVars, fruits, mergedPairs, mergeTimers,
                 lastDropPlayerId, maxFruitSize, idCounter, lastProcessedDropRequestId,
                 pendingDropFruitId, pendingDropSynced, settleCheckTimer, dropEnabled,
                 dropDelayTimer, nullWrites, reqCounter, materialised, carried, tempIds>>

NextDrop ==
  \E p \in P :
    \/ DropDeliver(p)
    \/ DropRedeliver(p)
    \/ DropDelay(p)
    \/ DropLaunch(p)
    \/ NullWrite(p)
    \/ DropFrame(p)
    \/ HostSync(p)

SpecDrop == InitDrop /\ [][NextDrop]_vars

\* the requester's display loop keeps running and the pushes to it arrive
SpecDropFair ==
  /\ SpecDrop
  /\ WF_vars(DropDeliver(Requester))
  /\ WF_vars(DropFrame(Requester))

\* ------------------------------------------------------------ claims on SpecDrop

\* C2: for every Drop Request id, a participant acting as authority makes
\* exactly one projectile for it, however many snapshots carrying that request
\* it receives (pushed again, or pushed for a change of another field while the
\* request is still in the document), and once it has made the projectile the
\* request is no longer in the document.
C2_RequestMaterialisedOnce ==
  \A p \in P : \A id \in FruitIds :
    /\ materialised[p][id] <= 1
    /\ carried[p][id] > 0 => materialised[p][id] = 1
    /\ materialised[p][id] > 0 => room.dropRequest.id # id

\* the authority has received the same request in more than one snapshot, has
\* made one projectile for it and has deleted the request
C2_Witness ==
  \E id \in FruitIds :
    /\ carried[Authority][id] = 2
    /\ materialised[Authority][id] = 1
    /\ \E i \in FruitIds : room.fruits[i] > 0 /\ fruits[Authority][i] > 0
    /\ room.dropRequest = NoRequest

\* C24: neither the authority's processing of a Drop Request nor a requester's
\* sending of one clears a pending spawn written by a later turn advance: the
\* pending spawn (currentFruit) of a turn is cleared only for a launch made in
\* that turn.  Stated for runs in which no authority has launched a projectile of
\* its own, so that every write that clears the pending spawn belongs to a Drop
\* Request.
C24_PendingSpawnKept ==
  [][(/\ room.currentFruit
      /\ ~room'.currentFruit
      /\ \A q \in P : lastDropPlayerId[q] # q)
       => \E p \in P :
            /\ isMyTurn(room, p)
            /\ lastTurnStartTime[p] = room.turnStartTime
            /\ turnPhase[p] = "settling"]_vars

\* a speculative projectile that p still holds
SpeculativeHeld(p) == \E i \in tempIds[p] : fruits[p][i] > 0

\* C9: the speculative projectile of a non-authoritative participant that
\* launched is eventually discarded, also when no authority ever processes its
\* Drop Request and also when the projectile map in the store is empty.
C9_SpeculativeDiscarded == SpeculativeHeld(Requester) ~> ~SpeculativeHeld(Requester)

\* the requester has discarded its speculative projectile although its request
\* is still in the document, unprocessed, and the projectile map is empty
C9_Witness ==
  /\ tempIds[Requester] # {}
  /\ ~SpeculativeHeld(Requester)
  /\ room.dropRequest.id # 0
  /\ materialised[Authority][room.dropRequest.id] = 0
  /\ room.fruits = NoFruits

\* ============================================================ SpecDropTrio
\* The drop protocol in a session of the authority and two non-authoritative
\* participants whose turns come first, one after the other, so that two Drop
\* Requests from different requesters pass through the single dropRequest slot.
\* The session is taken at the start of its second turn: participant 2 has
\* launched (request 1 is in the slot, its write that clears the pending spawn
\* is done), has waited for its speculative projectile to settle and has
\* advanced the turn; participants 2 and 3 have received every snapshot, the
\* authority has received none of the three yet.

TrioLaunchTurns == 2

\* the two requesters are at most TrioLag snapshots behind the store; the lag of
\* the authority is not bounded
TrioLag == 2

TrioRoom ==
  [DuoRoom(NoFruits) EXCEPT !.players = [q \in P |-> NewPlayer(q, q = Authority)],
                            !.playerOrder = <<2, 3, Authority>>]

\* the document after requestDropWithVelocity of participant 2, after its
\* set(currentFruit, null), and after its turn advance
TrioRequested == [TrioRoom EXCEPT !.dropRequest = [id |-> 1, playerId |-> 2, size |-> 1]]
TrioSpawnCleared == [TrioRequested EXCEPT !.currentFruit = FALSE]
TrioSecondTurn ==
  [TrioSpawnCleared EXCEPT !.currentPlayerIndex = 1, !.turnStartTime = 2,
                           !.currentFruit = TRUE]

InitDropTrio ==
  /\ room = TrioSecondTurn
  /\ roomExists = TRUE
  /\ conn = [q \in P |-> "connected"]
  /\ currentRoomState = [q \in P |-> IF q = Authority THEN TrioRoom ELSE TrioSecondTurn]
  /\ inbox = [q \in P |-> IF q = Authority
                             THEN <<TrioRequested, TrioSpawnCleared, TrioSecondTurn>>
                             ELSE <<>>]
  /\ lastEmittedTurnStartTime = [q \in P |-> IF q = Authority THEN 1 ELSE 2]
  /\ lastTurnStartTime = [q \in P |-> IF q = Authority THEN 1 ELSE 2]
  /\ turnPhase = [q \in P |-> "ready"]
  /\ leaveOp = [q \in P |-> IdleLeave]
  /\ cleanupOp = [q \in P |-> IdleCleanup]
  /\ hostLost = {}
  /\ DwellAtRest
  /\ BridgeAtRest
  /\ EndAtRest
  /\ IndexAtRest
  /\ LobbyAtRest
  /\ TurnAtRest
  /\ fruits = [q \in P |-> NoFruits]
  /\ mergedPairs = [q \in P |-> {}]
  /\ mergeTimers = [q \in P |-> {}]
  /\ lastDropPlayerId = [q \in P |-> 0]
  /\ maxFruitSize = [q \in P |-> 1]
  /\ deletedFruitIds = [q \in P |-> {}]
  /\ idCounter = 2
  /\ lastProcessedDropRequestId = [q \in P |-> 0]
  /\ pendingDropFruitId = [q \in P |-> 0]
  /\ pendingDropSynced = [q \in P |-> FALSE]
  /\ settleCheckTimer = [q \in P |-> 0]
  /\ dropEnabled = [q \in P |-> FALSE]
  /\ dropDelayTimer = [q \in P |-> q = 3]
  /\ nullWrites = [q \in P |-> 0]
  /\ reqCounter = 2
  /\ syncs = 0
  /\ materialised = [q \in P |-> [i \in FruitIds |-> 0]]
  /\ carried = [q \in P |-> [i \in FruitIds |-> 0]]
  /\ tempIds = [q \in P |-> IF q = 2 THEN {1} ELSE {}]

TrioLagKept == \A q \in P \ {Authority} : Len(inbox'[q]) <= TrioLag

NextDropTrio ==
  \E p \in P :
    \/ DropDeliver(p) /\ TrioLagKept
    \/ DropDelay(p)
    \/ DropLaunchIn(p, TrioLaunchTurns) /\ TrioLagKept
    \/ NullWrite(p) /\ TrioLagKept
    \/ DropFrame(p) /\ TrioLagKept
    \/ HostSync(p) /\ TrioLagKept

SpecDropTrio == InitDropTrio /\ [][NextDropTrio]_vars

\* ------------------------------------------------------------ claims on SpecDropTrio

\* C23: the authority's delete of a processed Drop Request never removes a
\* different, not yet processed one from the dropRequest slot: a request leaves
\* the document only when the authority has made its projectile.  No request
\* is materialised twice, and once the authority has received every snapshot
\* pushed to it, every request written has been materialised once.
C23_NewerRequestSurvivesDelete ==
  /\ [][(room.dropRequest.id # 0 /\ room'.dropRequest.id # room.dropRequest.id)
          => \/ room'.dropRequest.id # 0
             \/ materialised'[Authority][room.dropRequest.id] = 1]_vars
  /\ [](/\ \A id \in FruitIds : materialised[Authority][id] <= 1
        /\ inbox[Authority] = <<>>
             => \A id \in 1..(reqCounter - 1) : materialised[Authority][id] = 1)

\* p discards its speculative projectile in this step, and not because a turn
\* start is handled: the snapshot mirror (syncFruitsFromRemote) removes it
MirrorDiscards(p) ==
  /\ pendingDropFruitId[p] # 0
  /\ fruits[p][pendingDropFruitId[p]] > 0
  /\ fruits'[p][pendingDropFruitId[p]] = 0
  /\ lastTurnStartTime'[p] = lastTurnStartTime[p]

\* C26: a requester discards its speculative projectile only after a snapshot
\* that has changed past its request, and so never before the authority has
\* made the real projectile for that request: when the snapshot mirror discards
\* it, the launch the authority processed last is this requester's, and the
\* snapshot that is being mirrored lists the projectile made for it.
C26_DiscardAfterMaterialised ==
  [][\A p \in P :
       MirrorDiscards(p)
       => /\ lastDropPlayerId[Authority] = p
          /\ \E i \in FruitIds : /\ currentRoomState'[p].fruits[i] > 0
                                  /\ i > pendingDropFruitId[p]]_vars

\* C31: the authority's periodic projectile broadcast changes only entries of
\* the projectile map; the Drop Request, the turn index, the turn stamp, the
\* pending spawn, the participants and the session score of the document are
\* after the broadcast what they were before it, so a Drop Request written by
\* another participant is still in its slot.
C31_BroadcastKeepsOtherFields ==
  [][syncs' # syncs
       => /\ room' = [room EXCEPT !.fruits = room'.fruits]
          /\ room'.dropRequest = room.dropRequest]_vars

\* a broadcast was made while a Drop Request was in its slot and the map held a
\* projectile: the snapshot pushed for it repeats the one before it
C31_Witness ==
  \E q \in P : \E i \in 1..(Len(inbox[q]) - 1) :
    /\ inbox[q][i] = inbox[q][i + 1]
    /\ inbox[q][i].dropRequest.id # 0
    /\ inbox[q][i].fruits # NoFruits
    /\ room.dropRequest = inbox[q][i].dropRequest
    /\ syncs > 0

\* ====================================================== SpecDropFailover
\* SpecDrop with the loss of the authority's connection, at any moment and also
\* between the two writes of handleDropRequest, and the authority claim and the
\* roster cleanup of the participant that follows it.

\* the connection of p drops: the store runs onDisconnect(players/<p>).remove(),
\* and whatever p had in flight is lost with it
ConnectionLost(p) ==
  /\ conn' = [conn EXCEPT ![p] = "disconnected"]
  /\ hostLost' = hostLost \cup {p}
  /\ leaveOp' = [leaveOp EXCEPT ![p] = IdleLeave]
  /\ cleanupOp' = [cleanupOp EXCEPT ![p] = IdleCleanup]
  /\ currentRoomState' = [currentRoomState EXCEPT ![p] = NoRoom]
  /\ lastEmittedTurnStartTime' = [lastEmittedTurnStartTime EXCEPT ![p] = 0]
  /\ lastTurnStartTime' = [lastTurnStartTime EXCEPT ![p] = 0]
  /\ turnPhase' = [turnPhase EXCEPT ![p] = "waiting"]
  /\ nullWrites' = [nullWrites EXCEPT ![p] = 0]
  /\ UNCHANGED <<roomExists, dwellVars, fruits, mergedPairs, mergeTimers, lastDropPlayerId,
                 maxFruitSize, deletedFruitIds, lastProcessedDropRequestId,
                 pendingDropFruitId, pendingDropSynced, settleCheckTimer, dropEnabled,
                 dropDelayTimer, reqCounter, syncs, carried, tempIds>>

\* the authority's connection drops
FailoverDisconnect(p) ==
  /\ UNCHANGED notDrop
  /\ conn[p] = "connected"
  /\ isHost(room, p)
  /\ ConnectionLost(p)
  /\ room' = [room EXCEPT !.players[p] = Absent]
  /\ inbox' = [Pushed(inbox, <<room'>>) EXCEPT ![p] = <<>>]
  /\ UNCHANGED <<idCounter, materialised>>

\* handleDropRequest on the authority p for the request of the next snapshot it
\* receives, with the connection dropping after the projectile write of
\* hostAddFruit has reached the store and before clearDropRequest's delete has
MaterialiseAndDrop(p) ==
  LET r == Head(inbox[p])
      req == r.dropRequest
      added == [room EXCEPT !.fruits[idCounter] = req.size]
      gone == [added EXCEPT !.players[p] = Absent]
  IN /\ UNCHANGED notDrop
     /\ conn[p] = "connected"
     /\ inbox[p] # <<>>
     /\ isHost(r, p)
     /\ req.id # 0
     /\ isNewRequest(req.id, lastProcessedDropRequestId[p])
     /\ idCounter <= MaxFruitId
     /\ ConnectionLost(p)
     /\ idCounter' = idCounter + 1
     /\ materialised' = [materialised EXCEPT ![p][req.id] = @ + 1]
     /\ room' = gone
     /\ inbox' = [Pushed(inbox, <<added, gone>>) EXCEPT ![p] = <<>>]

\* cleanupDisconnectedPlayers: its write, pushed to the subscribers
FailoverCleanupUpdate(p) ==
  /\ CleanupWritten(p)
  /\ inbox' = Pushed(inbox, <<room'>>)
  /\ UNCHANGED <<dwellVars, mergeVars, syncs, launchVars, notDrop>>

NextDropFailover ==
  \E p \in P :
    \/ DropDeliver(p)
    \/ DropDelay(p)
    \/ DropLaunch(p)
    \/ NullWrite(p)
    \/ DropFrame(p)
    \/ HostSync(p)
    \/ FailoverDisconnect(p)
    \/ MaterialiseAndDrop(p)
    \/ CleanupGet(p)
    \/ FailoverCleanupUpdate(p)

SpecDropFailover == InitDrop /\ [][NextDropFailover]_vars

\* -------------------------------------------- claims on SpecDropFailover

\* the participants that made a projectile for request id
MadeBy(id) == {q \in P : materialised[q][id] > 0}

C22_MadeOnceAcrossFailover ==
  \A id \in FruitIds : Cardinality(MadeBy(id)) <= 1 /\ \A q \in P : materialised[q][id] <= 1

C22_SpeculativeNeverAuthoritative ==
  \A q \in P : \A i \in tempIds[q] : room.fruits[i] = 0

\* C22: a launch by a participant that is not the authority puts at most one
\* projectile into the authoritative map, also across a change of authority:
\* no request is materialised a second time, by the same or by another
\* participant, and no speculative projectile is listed in the authoritative map.
C22_OneProjectilePerLaunch ==
  C22_MadeOnceAcrossFailover /\ C22_SpeculativeNeverAuthoritative

\* p's launch is accepted in this step
LaunchStep(p) == turnPhase[p] # "settling" /\ turnPhase'[p] = "settling"

\* C33: a launch is accepted only at a participant that is entitled in its latest
\* snapshot, is in phase ready and has launching enabled, the delay of the handled
\* turn start being over; a Drop Request is written only by such a launch, of a
\* participant that is not the authority, and that step writes no projectile; a
\* participant gets back to phase ready only by handling a turn start, so it
\* launches once per handled turn start; and the projectile map is written only
\* by a participant that is the authority in its latest snapshot.
C33_LaunchOnlyWhenEntitledAndEnabled ==
  [][/\ \A p \in P :
          /\ LaunchStep(p)
               => /\ isMyTurn(currentRoomState[p], p)
                  /\ turnPhase[p] = "ready"
                  /\ dropEnabled[p] /\ ~dropDelayTimer[p]
                  /\ ~dropEnabled'[p]
          /\ (room'.dropRequest # room.dropRequest /\ room'.dropRequest.playerId = p)
               => /\ LaunchStep(p)
                  /\ ~isHost(currentRoomState[p], p)
                  /\ room'.fruits = room.fruits
          /\ (turnPhase[p] # "ready" /\ turnPhase'[p] = "ready")
               => lastTurnStartTime'[p] # lastTurnStartTime[p]
     /\ room'.fruits # room.fruits
          => \E a \in P :
               /\ conn[a] = "connected"
               /\ \/ LaunchStep(a) /\ isHost(currentRoomState[a], a)
                  \/ materialised'[a] # materialised[a]
                       /\ (conn'[a] = "connected" => isHost(currentRoomState'[a], a))
                  \/ syncs' # syncs /\ isHost(currentRoomState[a], a)
                       /\ room'.fruits = SyncedFruits(room.fruits, fruits[a],
                                                      deletedFruitIds[a])]_vars

\* a participant that is not the authority launched: its request is in the slot,
\* it holds its speculative projectile and the projectile map is as it was
C33_Witness ==
  \E p \in P :
    /\ conn[p] = "connected"
    /\ ~isHost(currentRoomState[p], p)
    /\ turnPhase[p] = "settling"
    /\ room.dropRequest.playerId = p
    /\ SpeculativeHeld(p)
    /\ ~dropEnabled[p]
    /\ room.fruits = NoFruits

\* ============================================================ SpecBridge
\* GameSync on its own: the snapshots of one session, in any order and with any
\* repetition, are handed to handleRoomUpdate, and what it emits is recorded.
\* A snapshot is taken as far as the turn derivation reads it: status,
\* turnStartTime and whether a pending spawn (currentFruit) is set.

MaxStamp == 3

\* a variant that the code does not implement: no comparison with the marker
anyTurn(stamp, lastEmitted) == TRUE

\* room.turnStartTime === this.lastEmittedTurnStartTime is a duplicate
isNewTurn(stamp, lastEmitted) == stamp # lastEmitted

BridgeRooms ==
  {[DuoRoom(NoFruits) EXCEPT !.status = status, !.turnStartTime = stamp,
                             !.currentFruit = spawn] :
     status \in {"waiting", "playing", "ended"}, stamp \in 0..MaxStamp, spawn \in BOOLEAN}

\* the session as createRoom wrote it, and a GameSync just constructed
InitBridge ==
  /\ room = [DuoRoom(NoFruits) EXCEPT !.status = "waiting", !.turnStartTime = 0,
                                      !.currentFruit = FALSE]
  /\ roomExists = TRUE
  /\ conn = [q \in P |-> IF q \in {Authority, 2} THEN "connected" ELSE "left"]
  /\ currentRoomState = [q \in P |-> NoRoom]
  /\ lastEmittedTurnStartTime = [q \in P |-> 0]
  /\ lastTurnStartTime = [q \in P |-> 0]
  /\ turnPhase = [q \in P |-> "waiting"]
  /\ leaveOp = [q \in P |-> IdleLeave]
  /\ cleanupOp = [q \in P |-> IdleCleanup]
  /\ hostLost = {}
  /\ DwellAtRest
  /\ MergeAtRest
  /\ DropAtRest
  /\ BridgeAtRest
  /\ EndAtRest
  /\ IndexAtRest
  /\ LobbyAtRest
  /\ TurnAtRest

\* the document becomes r and the authority's GameSync.handleRoomUpdate(r) runs:
\* game_start sets the marker, then the turn_start derivation
BridgeDeliver(r) ==
  LET prev == currentRoomState[Authority]
      first == prev.status = "none"
      started == IF first THEN r.status = "playing"
                 ELSE prev.status = "waiting" /\ r.status = "playing"
      marker == IF started THEN r.turnStartTime ELSE lastEmittedTurnStartTime[Authority]
      turn == /\ ~first
              /\ r.status = "playing"
              /\ r.currentFruit
              /\ isNewTurn(r.turnStartTime, marker)
  IN /\ room' = r
     /\ currentRoomState' = [currentRoomState EXCEPT ![Authority] = r]
     /\ lastEmittedTurnStartTime' =
          [lastEmittedTurnStartTime EXCEPT ![Authority] =
             IF turn THEN r.turnStartTime ELSE marker]
     /\ emitted' = [turnStart |-> turn,
                    stamp |-> r.turnStartTime,
                    marker |-> marker,
                    again |-> r = prev,
                    total |-> IF turn THEN Saturating(emitted.total) ELSE emitted.total]
     /\ UNCHANGED <<roomExists, conn, lastTurnStartTime, turnPhase, leaveOp, cleanupOp,
                    hostLost>>
     /\ UNCHANGED notBridge

NextBridge == \E r \in BridgeRooms : BridgeDeliver(r)

SpecBridge == InitBridge /\ [][NextBridge]_vars

\* ------------------------------------------------------------ claims on SpecBridge

\* C11: for any sequence of snapshots delivered to GameSync, a turn-start event
\* is emitted only for a snapshot whose turnStartTime differs from the marker
\* (the turnStartTime it last emitted for, or the one it took at match start),
\* and the marker then is that snapshot's turnStartTime; a snapshot delivered
\* again emits no turn-start event.
C11_TurnStartOnlyForNewStamp ==
  emitted.turnStart =>
    /\ emitted.stamp # emitted.marker
    /\ ~emitted.again
    /\ lastEmittedTurnStartTime[Authority] = emitted.stamp

\* the playing snapshot with a pending spawn for which a turn start was emitted
\* has been delivered once more, and nothing was emitted for it
C11_Witness ==
  /\ emitted.again
  /\ ~emitted.turnStart
  /\ emitted.total >= 1
  /\ room.status = "playing"
  /\ room.currentFruit
  /\ emitted.marker = room.turnStartTime

\* ============================================================ SpecLobby
\* A session that holds some participants already, in any status, or that does
\* not exist, and NumJoiners further participants that call joinRoom at any
\* time.  joinRoom reads the session, checks it, and then issues two writes,
\* each after an await.

\* a variant that the code does not implement: no participant cap
roomFullNever(playerCount) == FALSE

\* playerCount >= 10
roomFull(playerCount) == playerCount >= MAX_PLAYERS

\* Object.keys(roomState.players)
LobbyKeys(r) == {q \in LobbyIds : r.players[q].present}

\* the session after createRoom by participant 1 and k - 1 completed joins
LobbyRoom(k, status) ==
  [status |-> status,
   players |-> [q \in LobbyIds |-> IF q <= k THEN NewPlayer(q, q = 1) ELSE Absent],
   playerOrder |-> [i \in 1..k |-> i],
   currentPlayerIndex |-> 0,
   turnStartTime |-> IF status = "waiting" THEN 0 ELSE 1,
   currentFruit |-> status = "playing",
   partyScore |-> 0,
   maxFruitSize |-> 1,
   fruits |-> NoFruits,
   dropRequest |-> NoRequest]

InitLobby ==
  /\ \/ /\ roomExists = TRUE
        /\ \E k \in 1..MAX_PLAYERS, status \in {"waiting", "playing", "ended"} :
             room = LobbyRoom(k, status)
     \/ /\ roomExists = FALSE
        /\ room = LobbyRoom(0, "none")
  /\ conn = [q \in P |-> "left"]
  /\ currentRoomState = [q \in P |-> NoRoom]
  /\ lastEmittedTurnStartTime = [q \in P |-> 0]
  /\ lastTurnStartTime = [q \in P |-> 0]
  /\ turnPhase = [q \in P |-> "waiting"]
  /\ leaveOp = [q \in P |-> IdleLeave]
  /\ cleanupOp = [q \in P |-> IdleCleanup]
  /\ hostLost = {}
  /\ DwellAtRest
  /\ MergeAtRest
  /\ DropAtRest
  /\ BridgeAtRest
  /\ EndAtRest
  /\ IndexAtRest
  /\ LobbyAtRest
  /\ TurnAtRest

notLobby == <<rosterVars, dwellVars, mergeVars, dropVars, bridgeVars, turnVars, endVars>>

\* joinRoom up to its first write: get(room) and the three checks
JoinGet(j) ==
  /\ UNCHANGED notLobby
  /\ joinOp[j].pc = "idle"
  /\ joinOp' = [joinOp EXCEPT ![j] =
       IF ~roomExists THEN [IdleJoin EXCEPT !.pc = "failed", !.error = "Room not found"]
       ELSE IF room.status # "waiting"
         THEN [IdleJoin EXCEPT !.pc = "failed", !.error = "Game already started"]
       ELSE IF roomFull(Cardinality(LobbyKeys(room)))
         THEN [IdleJoin EXCEPT !.pc = "failed", !.error = "Room is full"]
       ELSE [IdleJoin EXCEPT !.pc = "player", !.playerOrder = room.playerOrder]]
  /\ UNCHANGED docVars

\* joinRoom: update(players/<j>, newPlayer)
JoinPlayer(j) ==
  /\ UNCHANGED notLobby
  /\ joinOp[j].pc = "player"
  /\ room' = [room EXCEPT !.players[j] = NewPlayer(j, FALSE)]
  /\ joinOp' = [joinOp EXCEPT ![j].pc = "order"]
  /\ UNCHANGED roomExists

\* joinRoom: update(room, {playerOrder: [...roomState.playerOrder, j]})
JoinOrder(j) ==
  /\ UNCHANGED notLobby
  /\ joinOp[j].pc = "order"
  /\ room' = [room EXCEPT !.playerOrder = Append(joinOp[j].playerOrder, j)]
  /\ joinOp' = [joinOp EXCEPT ![j].pc = "joined"]
  /\ UNCHANGED roomExists

NextLobby ==
  \E j \in Joiners :
    \/ JoinGet(j)
    \/ JoinPlayer(j)
    \/ JoinOrder(j)

SpecLobby == InitLobby /\ [][NextLobby]_vars

\* ------------------------------------------------------------ claims on SpecLobby

\* C14: a session never holds more than 10 participants: in every reachable
\* state, under any interleaving of concurrent joinRoom calls, the participants
\* map has at most 10 entries.
C14_AtMostTenParticipants ==
  roomExists => Cardinality(LobbyKeys(room)) <= MAX_PLAYERS

\* C15: a joinRoom call that reads a session that does not exist, whose status
\* is not waiting, or that holds 10 participants fails, and the step leaves the
\* session document as it is; a failed call has added no participant entry and
\* no turn-order entry for the caller.
C15_FailedJoinWritesNothing ==
  [][\A j \in Joiners :
       /\ (/\ joinOp[j].pc = "idle"
           /\ joinOp'[j].pc # "idle"
           /\ \/ ~roomExists
              \/ room.status # "waiting"
              \/ Cardinality(LobbyKeys(room)) >= MAX_PLAYERS)
          => /\ joinOp'[j].pc = "failed"
             /\ room' = room
             /\ roomExists' = roomExists
       /\ joinOp'[j].pc = "failed"
          => /\ ~room'.players[j].present
             /\ \A i \in DOMAIN room'.playerOrder : room'.playerOrder[i] # j]_vars

\* one caller joined a session of nine and made it full, the other caller then
\* failed on the full session, which holds ten participants and not the caller
C15_Witness ==
  \E i, j \in Joiners :
    /\ joinOp[i].pc = "joined"
    /\ joinOp[j].pc = "failed"
    /\ joinOp[j].error = "Room is full"
    /\ Cardinality(LobbyKeys(room)) = MAX_PLAYERS
    /\ ~room.players[j].present

\* C37: every participant in the participants map appears exactly once in the
\* turn order, whatever the interleaving of concurrent joinRoom calls; it is
\* stated for the moments at which no joinRoom call is between its two writes.
C37_EveryParticipantOnceInOrder ==
  (roomExists /\ \A j \in Joiners : joinOp[j].pc \notin {"player", "order"})
    => \A q \in LobbyKeys(room) :
         Cardinality({i \in DOMAIN room.playerOrder : room.playerOrder[i] = q}) = 1

\* ============================================================ SpecTurn
\* The turn cycle of a playing session: a turn start arms the entitled
\* participant (launch-enable delay and countdown), it launches or the countdown
\* forces the launch, it waits for its projectile to settle and advances the
\* turn.  The projectile and Drop Request writes of a launch touch fields this
\* specification does not track; the write that clears the pending spawn is
\* tracked.  SpecTurn keeps the roster fixed.

MaxTurnStamp == 4
MaxDepartures == 1

\* the countdown values at which a participant releases the slingshot by hand
LaunchMoments == {TURN_TIME}

\* a variant that the code does not implement: the countdown never expires
expiredNever(remaining) == FALSE

\* startTimer: this.timeRemaining <= 0
expired(remaining) == remaining <= 0

\* a variant that the code does not implement: a handled turn start arms whoever
\* handles it
armsAnyone(r, p) == TRUE

\* handleTurnStart: the countdown and the launch-enable delay are started
\* if (this.sync.isMyTurn)
armsEntitled(r, p) == isMyTurn(r, p)

notTurn == <<dwellVars, mergeVars, bridgeVars, lobbyVars, endVars>>

\* the turn orders the sessions start with
TurnOrders == {<<2, 3, 1>>}

InitTurn ==
  /\ \E order \in TurnOrders :
       /\ room = [status |-> "playing",
                  players |-> [q \in P |-> NewPlayer(q, q = order[1])],
                  playerOrder |-> order,
                  currentPlayerIndex |-> 0,
                  turnStartTime |-> 1,
                  currentFruit |-> TRUE,
                  partyScore |-> 0,
                  maxFruitSize |-> 1,
                  fruits |-> NoFruits,
                  dropRequest |-> NoRequest]
       /\ dropDelayTimer = [q \in P |-> q = order[1]]
       /\ timerInterval = [q \in P |-> q = order[1]]
  /\ roomExists = TRUE
  /\ conn = [q \in P |-> "connected"]
  /\ currentRoomState = [q \in P |-> room]
  /\ lastEmittedTurnStartTime = [q \in P |-> 1]
  /\ lastTurnStartTime = [q \in P |-> 1]
  /\ turnPhase = [q \in P |-> "ready"]
  /\ leaveOp = [q \in P |-> IdleLeave]
  /\ cleanupOp = [q \in P |-> IdleCleanup]
  /\ hostLost = {}
  /\ DwellAtRest
  /\ MergeAtRest
  /\ BridgeAtRest
  /\ EndAtRest
  /\ IndexAtRest
  /\ LobbyAtRest
  /\ inbox = [q \in P |-> <<>>]
  /\ lastProcessedDropRequestId = [q \in P |-> 0]
  /\ pendingDropFruitId = [q \in P |-> 0]
  /\ pendingDropSynced = [q \in P |-> FALSE]
  /\ settleCheckTimer = [q \in P |-> 0]
  /\ dropEnabled = [q \in P |-> FALSE]
  /\ nullWrites = [q \in P |-> 0]
  /\ reqCounter = 1
  /\ syncs = 0
  /\ materialised = [q \in P |-> [i \in FruitIds |-> 0]]
  /\ carried = [q \in P |-> [i \in FruitIds |-> 0]]
  /\ tempIds = [q \in P |-> {}]
  /\ timeRemaining = [q \in P |-> TURN_TIME]
  /\ launchLog = <<>>
  /\ advanceLog = <<>>
  /\ lostStamp = 0

\* onValue push to p, GameSync.handleRoomUpdate and the handlers of its events:
\* room_update (authority claim or cleanup check), turn_start (handleTurnStart
\* arms p when the turn is its own)
TurnDelivered(p) ==
  /\ roomExists
  /\ conn[p] = "connected"
  /\ LET r == room
         promote == shouldBecomeHost(r, p)
         cleanup == ~promote /\ isHost(r, p) /\ hasDisconnected(r)
         emit == r.status = "playing" /\ r.currentFruit
                 /\ isNewTurn(r.turnStartTime, lastEmittedTurnStartTime[p])
         handled == emit /\ r.turnStartTime # lastTurnStartTime[p]
                    /\ turnPhase[p] # "settling"
         mine == handled /\ armsEntitled(r, p)
     IN /\ currentRoomState' = [currentRoomState EXCEPT ![p] = r]
        /\ room' = IF promote THEN [room EXCEPT !.players = SetHostFlag(@, p)] ELSE room
        /\ cleanupOp' = IF cleanup /\ cleanupOp[p].pc = "idle"
                        THEN [cleanupOp EXCEPT ![p].pc = "get"] ELSE cleanupOp
        /\ lastEmittedTurnStartTime' =
             [lastEmittedTurnStartTime EXCEPT ![p] = IF emit THEN r.turnStartTime ELSE @]
        /\ lastTurnStartTime' =
             [lastTurnStartTime EXCEPT ![p] = IF handled THEN r.turnStartTime ELSE @]
        /\ turnPhase' = [turnPhase EXCEPT ![p] = IF handled THEN "ready" ELSE @]
        /\ settleCheckTimer' = [settleCheckTimer EXCEPT ![p] = IF handled THEN 0 ELSE @]
        /\ pendingDropFruitId' = [pendingDropFruitId EXCEPT ![p] = IF handled THEN 0 ELSE @]
        /\ pendingDropSynced' =
             [pendingDropSynced EXCEPT ![p] = IF handled THEN FALSE ELSE @]
        /\ dropEnabled' = [dropEnabled EXCEPT ![p] = IF handled THEN FALSE ELSE @]
        /\ dropDelayTimer' = [dropDelayTimer EXCEPT ![p] = IF handled THEN mine ELSE @]
        /\ timerInterval' = [timerInterval EXCEPT ![p] = IF handled THEN mine ELSE @]
        /\ timeRemaining' = [timeRemaining EXCEPT ![p] = IF mine THEN TURN_TIME ELSE @]
  /\ UNCHANGED <<roomExists, conn, leaveOp, hostLost, inbox, lastProcessedDropRequestId,
                 nullWrites, reqCounter, syncs, materialised, carried, tempIds,
                 launchLog, advanceLog, lostStamp>>

TurnDeliver(p) == UNCHANGED notTurn /\ TurnDelivered(p)

\* the launch-enable delay of the handled turn start elapses
TurnDelay(p) ==
  /\ UNCHANGED notTurn
  /\ conn[p] = "connected"
  /\ dropDelayTimer[p]
  /\ dropDelayTimer' = [dropDelayTimer EXCEPT ![p] = FALSE]
  /\ dropEnabled' = [dropEnabled EXCEPT ![p] = TRUE]
  /\ UNCHANGED <<docVars, rosterVars, inbox, lastProcessedDropRequestId,
                 pendingDropFruitId, pendingDropSynced, settleCheckTimer, nullWrites,
                 reqCounter, syncs, materialised, carried, tempIds, turnVars>>

\* the guard of launchFruit, dropEnabled apart
mayLaunch(p) == isMyTurn(currentRoomState[p], p) /\ turnPhase[p] = "ready"

\* launchFruit past its guard: the countdown and the delay are stopped, p waits
\* for its projectile to settle, and the write that clears the pending spawn is
\* owed once the projectile or request write is done
Launched(p, forced) ==
  /\ timerInterval' = [timerInterval EXCEPT ![p] = FALSE]
  /\ dropDelayTimer' = [dropDelayTimer EXCEPT ![p] = FALSE]
  /\ dropEnabled' = [dropEnabled EXCEPT ![p] = FALSE]
  /\ turnPhase' = [turnPhase EXCEPT ![p] = "settling"]
  /\ settleCheckTimer' = [settleCheckTimer EXCEPT ![p] = 0]
  /\ nullWrites' = [nullWrites EXCEPT ![p] = @ + 1]
  /\ launchLog' = Append(launchLog, [player |-> p, forced |-> forced,
                                     stamp |-> currentRoomState[p].turnStartTime])

\* the entitled participant releases the slingshot: launchFruit
TurnLaunch(p) ==
  /\ UNCHANGED notTurn
  /\ conn[p] = "connected"
  /\ mayLaunch(p)
  /\ dropEnabled[p]
  /\ timeRemaining[p] \in LaunchMoments
  /\ Launched(p, FALSE)
  /\ UNCHANGED <<docVars, conn, currentRoomState, lastEmittedTurnStartTime,
                 lastTurnStartTime, leaveOp, cleanupOp, hostLost, inbox,
                 lastProcessedDropRequestId, pendingDropFruitId, pendingDropSynced,
                 reqCounter, syncs, materialised, carried, tempIds, timeRemaining,
                 advanceLog, lostStamp>>

\* one tick of the countdown interval: at expiry the launch is enabled and
\* launchFruit is called; the interval goes on until a launch stops it.  The
\* code counts on below zero, which the test does not distinguish from zero.
\* The launch-enable delay (DROP_DELAY_MS) lasts one tick period, so only the
\* first tick can come before it has elapsed.
Ticked(p) ==
  /\ conn[p] = "connected"
  /\ timerInterval[p]
  /\ dropDelayTimer[p] => timeRemaining[p] = TURN_TIME
  /\ LET remaining == IF timeRemaining[p] > 0 THEN timeRemaining[p] - 1 ELSE 0
     IN /\ timeRemaining' = [timeRemaining EXCEPT ![p] = remaining]
        /\ IF expired(remaining)
             THEN IF mayLaunch(p)
                    THEN Launched(p, TRUE)
                    ELSE /\ dropEnabled' = [dropEnabled EXCEPT ![p] = TRUE]
                         /\ UNCHANGED <<timerInterval, dropDelayTimer, turnPhase,
                                        settleCheckTimer, nullWrites, launchLog>>
             ELSE UNCHANGED <<timerInterval, dropDelayTimer, dropEnabled, turnPhase,
                              settleCheckTimer, nullWrites, launchLog>>
  /\ UNCHANGED <<docVars, conn, currentRoomState, lastEmittedTurnStartTime,
                 lastTurnStartTime, leaveOp, cleanupOp, hostLost, inbox,
                 lastProcessedDropRequestId, pendingDropFruitId, pendingDropSynced,
                 reqCounter, syncs, materialised, carried, tempIds, advanceLog, lostStamp>>

TurnTick(p) == UNCHANGED notTurn /\ Ticked(p)

\* the write awaited by dropFruitWithVelocity / requestDropWithVelocity is done:
\* set(currentFruit, null)
TurnNullWrite(p) ==
  /\ UNCHANGED notTurn
  /\ roomExists
  /\ conn[p] = "connected"
  /\ nullWrites[p] > 0
  /\ nullWrites' = [nullWrites EXCEPT ![p] = @ - 1]
  /\ room' = [room EXCEPT !.currentFruit = FALSE]
  /\ UNCHANGED <<roomExists, rosterVars, inbox, lastProcessedDropRequestId,
                 pendingDropFruitId, pendingDropSynced, settleCheckTimer, dropEnabled,
                 dropDelayTimer, reqCounter, syncs, materialised, carried, tempIds,
                 turnVars>>

\* gameLoop: a frame of a participant that waits for its projectile to settle;
\* after more than SETTLE_FRAMES frames: nextTurn.  `arrives' tells whether the
\* turn-advance write reaches the store.
Settled(p, arrives) ==
  /\ roomExists
  /\ conn[p] = "connected"
  /\ turnPhase[p] = "settling"
  /\ isMyTurn(currentRoomState[p], p)
  /\ IF settleCheckTimer[p] + 1 > SETTLE_FRAMES
       THEN /\ room.turnStartTime < MaxTurnStamp
            /\ settleCheckTimer' = [settleCheckTimer EXCEPT ![p] = 0]
            /\ turnPhase' = [turnPhase EXCEPT ![p] = "waiting"]
            /\ advanceLog' = Append(advanceLog,
                                    [player |-> p, frames |-> settleCheckTimer[p] + 1])
            /\ IF arrives
                 THEN /\ room' = [room EXCEPT
                                    !.currentPlayerIndex = NextIndex(currentRoomState[p]),
                                    !.turnStartTime = @ + 1,
                                    !.currentFruit = TRUE]
                      /\ UNCHANGED lostStamp
                 ELSE /\ lostStamp = 0
                      /\ lostStamp' = room.turnStartTime
                      /\ UNCHANGED room
       ELSE /\ arrives
            /\ settleCheckTimer' = [settleCheckTimer EXCEPT ![p] = @ + 1]
            /\ UNCHANGED <<room, turnPhase, advanceLog, lostStamp>>
  /\ UNCHANGED <<roomExists, conn, currentRoomState, lastEmittedTurnStartTime,
                 lastTurnStartTime, leaveOp, cleanupOp, hostLost, inbox,
                 lastProcessedDropRequestId, pendingDropFruitId, pendingDropSynced,
                 dropEnabled, dropDelayTimer, nullWrites, reqCounter, syncs,
                 materialised, carried, tempIds, timeRemaining, timerInterval, launchLog>>

Settle(p, arrives) == UNCHANGED notTurn /\ Settled(p, arrives)

TurnFrame(p) == Settle(p, TRUE)

\* the frame whose turn-advance write fails without reaching the store
TurnFrameLost(p) == Settle(p, FALSE)

NextTurn ==
  \E p \in P :
    \/ TurnDeliver(p)
    \/ TurnDelay(p)
    \/ TurnLaunch(p)
    \/ TurnTick(p)
    \/ TurnNullWrite(p)
    \/ TurnFrame(p)

SpecTurn == InitTurn /\ [][NextTurn]_vars

\* the turn cycle up to FairAdvances turn advances that reach the store
FairAdvances == 1

NextTurnFair ==
  \E p \in P :
    \/ TurnDeliver(p)
    \/ TurnDelay(p)
    \/ TurnLaunch(p)
    \/ TurnTick(p)
    \/ TurnNullWrite(p)
    \/ TurnFrame(p) /\ room'.turnStartTime <= 1 + FairAdvances

\* the launch-enable timeouts and the countdown intervals keep firing
SpecTurnFair ==
  /\ InitTurn
  /\ [][NextTurnFair]_vars
  /\ \A p \in P : WF_vars(TurnDelay(p)) /\ WF_vars(TurnTick(p))

\* C13: a countdown that was armed for a connected participant in turn t is
\* followed by a launch of that participant in turn t: by hand, or forced when
\* the TURN_TIME ticks have expired
C13_ArmedTurnLaunches ==
  \A p \in P, t \in 1..MaxTurnStamp :
    (timerInterval[p] /\ conn[p] = "connected" /\ lastTurnStartTime[p] = t)
      ~> (\E i \in DOMAIN launchLog : launchLog[i].player = p /\ launchLog[i].stamp = t)

\* a launch of a later turn was forced by the expired countdown
C13_Witness ==
  \E i \in DOMAIN launchLog :
    /\ launchLog[i].forced
    /\ launchLog[i].stamp > 1
    /\ timeRemaining[launchLog[i].player] = 0

\* C19: with a fixed roster of N participants the k-th launch (k = 0, 1, ..) is
\* made by turnOrder[k mod N], and no participant launches twice in a row
C19_RoundRobinLaunches ==
  \A k \in DOMAIN launchLog :
    /\ launchLog[k].player = room.playerOrder[((k - 1) % Len(room.playerOrder)) + 1]
    /\ k > 1 => launchLog[k].player # launchLog[k - 1].player

\* the turn came round to the first participant of the order, which launched again
C19_Witness ==
  /\ Len(launchLog) = NumPlayers + 1
  /\ launchLog[NumPlayers + 1].player = launchLog[1].player
  /\ Len(advanceLog) = NumPlayers

\* ============================================================ SpecTurnLossy
\* The turn cycle in which one turn-advance write may fail without reaching the
\* store.  Every timer, frame loop, delivery and pending write keeps running;
\* releasing the slingshot by hand is left to the participant.

NextTurnLossy ==
  \/ NextTurnFair
  \/ \E p \in P : TurnFrameLost(p)

SpecTurnLossy ==
  /\ InitTurn
  /\ [][NextTurnLossy]_vars
  /\ \A p \in P :
       /\ WF_vars(TurnDeliver(p))
       /\ WF_vars(TurnDelay(p))
       /\ WF_vars(TurnTick(p))
       /\ WF_vars(TurnNullWrite(p))
       /\ WF_vars(TurnFrame(p) /\ room'.turnStartTime <= 1 + FairAdvances)

\* C18: after a turn-advance write was lost the turn is still eventually advanced
C18_LostAdvanceRetried == lostStamp # 0 ~> room.turnStartTime > lostStamp

\* ============================================================ SpecTurnRoster
\* The turn cycle while participants leave or lose their connection: the steps
\* of SpecTurn together with the membership steps of SpecRoster, for at most
\* MaxDepartures departures, up to RosterLaunches launches (the countdowns stand
\* still afterwards) and turn advances up to turn RosterStamp.  The session is taken
\* up at the start of its second turn, a state SpecTurn reaches: the first of the
\* order launched by hand in turn 1 and advanced the turn, its spawn-clearing
\* write is done, and every participant has handled the turn start.

RosterStamp == 3
RosterLaunches == 2

Departed == {q \in P : conn[q] # "connected"}

MayDepart(p) == conn[p] = "connected" /\ Cardinality(Departed) < MaxDepartures

\* the game object of a departed participant takes no further part: its timers
\* and whatever it had in flight are gone
Stopped(p) ==
  /\ timerInterval' = [timerInterval EXCEPT ![p] = FALSE]
  /\ timeRemaining' = [timeRemaining EXCEPT ![p] = TURN_TIME]
  /\ dropDelayTimer' = [dropDelayTimer EXCEPT ![p] = FALSE]
  /\ dropEnabled' = [dropEnabled EXCEPT ![p] = FALSE]
  /\ settleCheckTimer' = [settleCheckTimer EXCEPT ![p] = 0]
  /\ nullWrites' = [nullWrites EXCEPT ![p] = 0]
  /\ UNCHANGED <<inbox, lastProcessedDropRequestId, pendingDropFruitId,
                 pendingDropSynced, reqCounter, syncs, materialised, carried, tempIds,
                 launchLog, advanceLog, lostStamp>>

\* setupDisconnectHandler: onDisconnect(players/<p>).remove() fires when p's
\* connection drops, also in the middle of p's leaveRoom
TurnDisconnect(p) ==
  /\ UNCHANGED notTurn
  /\ roomExists
  /\ MayDepart(p) \/ conn[p] = "leaving"
  /\ conn' = [conn EXCEPT ![p] = "disconnected"]
  /\ room' = [room EXCEPT !.players[p] = Absent]
  /\ hostLost' = IF conn[p] = "connected" /\ isHost(room, p) THEN hostLost \cup {p}
                 ELSE hostLost
  /\ leaveOp' = [leaveOp EXCEPT ![p] = IdleLeave]
  /\ cleanupOp' = [cleanupOp EXCEPT ![p] = IdleCleanup]
  /\ currentRoomState' = [currentRoomState EXCEPT ![p] = NoRoom]
  /\ lastEmittedTurnStartTime' = [lastEmittedTurnStartTime EXCEPT ![p] = 0]
  /\ lastTurnStartTime' = [lastTurnStartTime EXCEPT ![p] = 0]
  /\ turnPhase' = [turnPhase EXCEPT ![p] = "waiting"]
  /\ Stopped(p)
  /\ UNCHANGED roomExists

\* leaveRoom up to its first await: wasHost, off(roomRef), remove(players/<p>)
TurnLeaveStart(p) ==
  /\ UNCHANGED notTurn
  /\ roomExists
  /\ MayDepart(p)
  /\ conn' = [conn EXCEPT ![p] = "leaving"]
  /\ room' = [room EXCEPT !.players[p] = Absent]
  /\ leaveOp' = [leaveOp EXCEPT ![p] = [IdleLeave EXCEPT !.pc = "get",
                                         !.wasHost = isHost(currentRoomState[p], p)]]
  /\ currentRoomState' = [currentRoomState EXCEPT ![p] = NoRoom]
  /\ lastEmittedTurnStartTime' = [lastEmittedTurnStartTime EXCEPT ![p] = 0]
  /\ lastTurnStartTime' = [lastTurnStartTime EXCEPT ![p] = 0]
  /\ turnPhase' = [turnPhase EXCEPT ![p] = "waiting"]
  /\ Stopped(p)
  /\ UNCHANGED <<roomExists, cleanupOp, hostLost>>

NextTurnRoster ==
  \E p \in P :
    \/ TurnDeliver(p)
    \/ TurnDelay(p)
    \/ TurnLaunch(p) /\ Len(launchLog) < RosterLaunches
    \/ TurnTick(p) /\ Len(launchLog) < RosterLaunches
    \/ TurnNullWrite(p)
    \/ TurnFrame(p) /\ room'.turnStartTime <= RosterStamp
    \/ TurnDisconnect(p)
    \/ TurnLeaveStart(p)
    \/ LeaveGet(p)
    \/ LeaveUpdate(p)
    \/ CleanupGet(p)
    \/ CleanupUpdate(p)

InitTurnRoster ==
  /\ \E order \in TurnOrders :
       /\ room = [status |-> "playing",
                  players |-> [q \in P |-> NewPlayer(q, q = order[1])],
                  playerOrder |-> order,
                  currentPlayerIndex |-> 1,
                  turnStartTime |-> 2,
                  currentFruit |-> TRUE,
                  partyScore |-> 0,
                  maxFruitSize |-> 1,
                  fruits |-> NoFruits,
                  dropRequest |-> NoRequest]
       /\ dropDelayTimer = [q \in P |-> q = order[2]]
       /\ timerInterval = [q \in P |-> q = order[2]]
       /\ launchLog = <<[player |-> order[1], forced |-> FALSE, stamp |-> 1]>>
       /\ advanceLog = <<[player |-> order[1], frames |-> SETTLE_FRAMES + 1]>>
  /\ roomExists = TRUE
  /\ conn = [q \in P |-> "connected"]
  /\ currentRoomState = [q \in P |-> room]
  /\ lastEmittedTurnStartTime = [q \in P |-> 2]
  /\ lastTurnStartTime = [q \in P |-> 2]
  /\ turnPhase = [q \in P |-> "ready"]
  /\ leaveOp = [q \in P |-> IdleLeave]
  /\ cleanupOp = [q \in P |-> IdleCleanup]
  /\ hostLost = {}
  /\ DwellAtRest
  /\ MergeAtRest
  /\ BridgeAtRest
  /\ EndAtRest
  /\ IndexAtRest
  /\ LobbyAtRest
  /\ inbox = [q \in P |-> <<>>]
  /\ lastProcessedDropRequestId = [q \in P |-> 0]
  /\ pendingDropFruitId = [q \in P |-> 0]
  /\ pendingDropSynced = [q \in P |-> FALSE]
  /\ settleCheckTimer = [q \in P |-> 0]
  /\ dropEnabled = [q \in P |-> FALSE]
  /\ nullWrites = [q \in P |-> 0]
  /\ reqCounter = 1
  /\ syncs = 0
  /\ materialised = [q \in P |-> [i \in FruitIds |-> 0]]
  /\ carried = [q \in P |-> [i \in FruitIds |-> 0]]
  /\ tempIds = [q \in P |-> {}]
  /\ timeRemaining = [q \in P |-> TURN_TIME]
  /\ lostStamp = 0

SpecTurnRoster == InitTurnRoster /\ [][NextTurnRoster]_vars

\* the state SpecTurnRoster starts from, as SpecTurn reaches it
SecondTurnReached ==
  \E order \in TurnOrders :
    /\ room.playerOrder = order /\ room.currentPlayerIndex = 1 /\ room.turnStartTime = 2
    /\ room.currentFruit
    /\ currentRoomState = [q \in P |-> room]
    /\ lastTurnStartTime = [q \in P |-> 2]
    /\ lastEmittedTurnStartTime = [q \in P |-> 2]
    /\ turnPhase = [q \in P |-> "ready"]
    /\ timerInterval = [q \in P |-> q = order[2]]
    /\ dropDelayTimer = [q \in P |-> q = order[2]]
    /\ dropEnabled = [q \in P |-> FALSE]
    /\ timeRemaining = [q \in P |-> TURN_TIME]
    /\ settleCheckTimer = [q \in P |-> 0]
    /\ nullWrites = [q \in P |-> 0]
    /\ launchLog = <<[player |-> order[1], forced |-> FALSE, stamp |-> 1]>>
    /\ advanceLog = <<[player |-> order[1], frames |-> SETTLE_FRAMES + 1]>>

LaunchesOf(p) == Cardinality({i \in DOMAIN launchLog : launchLog[i].player = p})

AdvancesOf(p) == Cardinality({i \in DOMAIN advanceLog : advanceLog[i].player = p})

\* C16: a turn-advance write is issued only by the participant that is entitled
\* in its latest snapshot, after more than SETTLE_FRAMES frames in phase settling
\* since its own launch, once per launch, and it sets the turn index to
\* (old + 1) mod the length of the turn order with a fresh turnStartTime and a
\* fresh pending spawn
C16_AdvanceWrite ==
  [][Len(advanceLog') > Len(advanceLog) =>
       LET w == advanceLog'[Len(advanceLog')]
           p == w.player
       IN /\ isMyTurn(currentRoomState[p], p)
          /\ turnPhase[p] = "settling"
          /\ w.frames > SETTLE_FRAMES
          /\ LaunchesOf(p) = AdvancesOf(p) + 1
          /\ room'.currentPlayerIndex =
               (room.currentPlayerIndex + 1) % Len(room.playerOrder)
          /\ room'.turnStartTime > room.turnStartTime
          /\ room'.currentFruit]_vars

\* nothing is left to propagate or to elapse: every connected participant holds
\* the current document, no leave, cleanup, authority claim or spawn-clearing
\* write is pending, and no launch-enable delay is running
TurnSettled ==
  /\ RosterSettled
  /\ \A p \in P : conn[p] = "connected" => nullWrites[p] = 0 /\ ~dropDelayTimer[p]

\* some connected participant can still move the turn on: it may launch with a
\* running countdown or by hand, or it waits for its projectile to settle and
\* will advance the turn
TurnProgressing ==
  \E p \in P :
    /\ conn[p] = "connected"
    /\ \/ mayLaunch(p) /\ (timerInterval[p] \/ dropEnabled[p])
       \/ turnPhase[p] = "settling" /\ isMyTurn(currentRoomState[p], p)

\* C17: while the session is playing and some participant is connected the turn
\* always eventually advances.  Stated on the states in which nothing is left to
\* propagate or to elapse: there some connected participant must still be able
\* to launch or to advance the turn, else the turn never advances again.
C17_TurnNeverStuck ==
  (/\ roomExists
   /\ room.status = "playing"
   /\ \E p \in P : conn[p] = "connected"
   /\ TurnSettled)
  => TurnProgressing

\* p handles a turn start in this step
HandlesTurnStart(p) == lastTurnStartTime'[p] # lastTurnStartTime[p] /\ conn'[p] = "connected"

\* C32: every turn-start event derived by a participant cancels its running
\* countdown and its pending launch-enable delay, whatever caused the turn start:
\* after the step a countdown or a delay is running at that participant only if
\* the handler of this very turn start armed it, the participant being entitled
\* in the snapshot handled, with the countdown at TURN_TIME and the launch not yet
\* enabled.  A countdown or a delay starts running at no other step.
C32_TurnStartCancelsTimers ==
  [][\A p \in P :
       /\ (lastEmittedTurnStartTime'[p] # lastEmittedTurnStartTime[p] /\ conn'[p] = "connected")
            => \/ ~timerInterval'[p] /\ ~dropDelayTimer'[p]
               \/ /\ HandlesTurnStart(p)
                  /\ isMyTurn(currentRoomState'[p], p)
                  /\ timerInterval'[p] /\ dropDelayTimer'[p]
                  /\ timeRemaining'[p] = TURN_TIME
                  /\ ~dropEnabled'[p]
       /\ ((~timerInterval[p] /\ timerInterval'[p]) \/ (~dropDelayTimer[p] /\ dropDelayTimer'[p]))
            => HandlesTurnStart(p) /\ isMyTurn(currentRoomState'[p], p)]_vars

\* a turn start written by the authority's cleanup (no turn advance made its
\* stamp) was handled by the participant it entitles, whose countdown and delay
\* run afresh
C32_Witness ==
  \E p \in P :
    /\ conn[p] = "connected"
    /\ lastTurnStartTime[p] = room.turnStartTime
    /\ room.turnStartTime > 1 + Len(advanceLog)
    /\ isMyTurn(currentRoomState[p], p)
    /\ timerInterval[p] /\ dropDelayTimer[p]
    /\ timeRemaining[p] = TURN_TIME
    /\ ~dropEnabled[p]

\* ============================================================ SpecEnd
\* The turn cycle of SpecTurn up to turn EndStamp, to which the end of the match
\* is added: the authority's frame loop reports the match as ended at any moment
\* of turn EndStamp, each participant derives and handles game_over, and the
\* slingshot is pulled and released by pointer events on the canvas.

EndStamp == 2

notEnd == <<dwellVars, mergeVars, bridgeVars, lobbyVars>>

\* a variant that the code does not implement: game_over for every ended snapshot
gameOverWheneverEnded(prev, r) == r.status = "ended"

\* GameSync.handleRoomUpdate: prevRoom.status === 'playing' && room.status === 'ended'
gameOverDerived(prev, r) == prev.status = "playing" /\ r.status = "ended"

\* onValue push to p: GameSync.handleRoomUpdate; when game_over is derived,
\* MultiplayerGame.handleGameOver stops the loop and the countdown and shows the
\* result overlay (a snapshot that is ended derives no turn start)
EndDeliver(p) ==
  IF gameOverDerived(currentRoomState[p], room)
    THEN /\ roomExists
         /\ conn[p] = "connected"
         /\ currentRoomState' = [currentRoomState EXCEPT ![p] = room]
         /\ room' = IF shouldBecomeHost(room, p)
                       THEN [room EXCEPT !.players = SetHostFlag(@, p)] ELSE room
         /\ cleanupOp' = IF /\ ~shouldBecomeHost(room, p)
                            /\ isHost(room, p)
                            /\ hasDisconnected(room)
                            /\ cleanupOp[p].pc = "idle"
                           THEN [cleanupOp EXCEPT ![p].pc = "get"] ELSE cleanupOp
         /\ gameOvers' = [gameOvers EXCEPT ![p] = Saturating(@)]
         /\ timerInterval' = [timerInterval EXCEPT ![p] = FALSE]
         /\ UNCHANGED <<roomExists, conn, lastEmittedTurnStartTime, lastTurnStartTime,
                        turnPhase, leaveOp, hostLost, dropVars, timeRemaining, launchLog,
                        advanceLog, lostStamp, slingshotPhase, spawnWritten, indexCase, notEnd>>
    ELSE TurnDeliver(p)

\* handlePointerDown and handlePointerMove on the canvas: the slingshot is pulled
\* (the result overlay covers the canvas once game_over was handled)
EndPull(p) ==
  /\ conn[p] = "connected"
  /\ gameOvers[p] = 0
  /\ slingshotPhase[p] = "idle"
  /\ timeRemaining[p] \in LaunchMoments
  /\ launchAccepted(isMyTurn(currentRoomState[p], p), turnPhase[p], dropEnabled[p])
  /\ slingshotPhase' = [slingshotPhase EXCEPT ![p] = "pulling"]
  /\ UNCHANGED <<docVars, rosterVars, dropVars, turnVars, gameOvers, spawnWritten, indexCase,
                 notEnd>>

\* handlePointerUp (pointerup, pointerleave or pointercancel of the captured
\* pointer): a pulled slingshot calls launchFruit
EndRelease(p) ==
  /\ conn[p] = "connected"
  /\ slingshotPhase[p] = "pulling"
  /\ timeRemaining[p] \in LaunchMoments
  /\ slingshotPhase' = [slingshotPhase EXCEPT ![p] = "idle"]
  /\ IF launchAccepted(isMyTurn(currentRoomState[p], p), turnPhase[p], dropEnabled[p])
       THEN Launched(p, FALSE)
       ELSE UNCHANGED <<timerInterval, dropDelayTimer, dropEnabled, turnPhase,
                        settleCheckTimer, nullWrites, launchLog>>
  /\ UNCHANGED <<docVars, conn, currentRoomState, lastEmittedTurnStartTime,
                 lastTurnStartTime, leaveOp, cleanupOp, hostLost, inbox,
                 lastProcessedDropRequestId, pendingDropFruitId, pendingDropSynced,
                 reqCounter, syncs, materialised, carried, tempIds, timeRemaining,
                 advanceLog, lostStamp, gameOvers, spawnWritten, indexCase, notEnd>>

\* a tick of the countdown; a forced launch resets the slingshot
EndTick(p) ==
  /\ Ticked(p)
  /\ slingshotPhase' = [slingshotPhase EXCEPT ![p] = IF LaunchStep(p) THEN "idle" ELSE @]
  /\ UNCHANGED <<gameOvers, spawnWritten, indexCase, notEnd>>

\* updateGameOverCheck on the authority, its loop running: reportGameOver
EndGame(p) ==
  /\ roomExists
  /\ conn[p] = "connected"
  /\ gameOvers[p] = 0
  /\ isHost(currentRoomState[p], p)
  /\ room.status = "playing"
  /\ room.turnStartTime = EndStamp
  /\ room' = [room EXCEPT !.status = "ended"]
  /\ UNCHANGED <<roomExists, rosterVars, dropVars, turnVars, endVars, notEnd>>

NextEnd ==
  \E p \in P :
    \/ EndDeliver(p)
    \/ TurnDelay(p)
    \/ EndPull(p)
    \/ EndRelease(p)
    \/ EndTick(p)
    \/ TurnNullWrite(p)
    \/ gameOvers[p] = 0 /\ TurnFrame(p) /\ room'.turnStartTime <= EndStamp
    \/ EndGame(p)

SpecEnd == InitTurn /\ [][NextEnd]_vars

\* ------------------------------------------------------------ claims on SpecEnd

\* C34: each participant derives the match-ended event once, on the first snapshot
\* whose status is ended after one whose status was playing, and on no later
\* snapshot; once it has handled the event its countdown is stopped, and it makes
\* no launch (no projectile or Drop Request write) and no turn-advance write.
C34_MatchEndedOnceAndFinal ==
  [][\A p \in P :
       /\ gameOvers'[p] # gameOvers[p]
            => /\ gameOvers[p] = 0
               /\ currentRoomState[p].status = "playing"
               /\ currentRoomState'[p].status = "ended"
       /\ (currentRoomState[p].status = "playing" /\ currentRoomState'[p].status = "ended")
            => gameOvers'[p] = 1
       /\ gameOvers[p] >= 1
            => /\ ~timerInterval'[p]
               /\ ~LaunchStep(p)
               /\ nullWrites'[p] <= nullWrites[p]
               /\ Len(advanceLog') > Len(advanceLog)
                    => advanceLog'[Len(advanceLog')].player # p]_vars

\* ============================================================ SpecSpawn
\* The turn cycle with a changing roster, to which the spawn sizes are added:
\* the authority's merges raise the largest size it knows, every snapshot
\* raises a participant's largest known size to the stored one, and a turn
\* advance and the authority's cleanup draw the size of the pending spawn.
\* Every launch is made by hand before the countdown has run out.

SpawnStamp == 2

\* the size the merges of the session produce
MergedSize == 7

MergedSizes == {MergedSize}

notSpawn == <<dwellVars, bridgeVars, lobbyVars, gameOvers, slingshotPhase, indexCase>>

mergeRest == <<fruits, mergedPairs, mergeTimers, lastDropPlayerId, deletedFruitIds,
               idCounter>>

\* cleanupDisconnectedPlayers: Math.floor(Math.random() * Math.min(maxFruitSize, 5)) + 1
CleanupSpawnSizes(stored) == 1..(IF stored > 5 THEN 5 ELSE stored)

\* onValue push to p: GameSync.handleRoomUpdate and MultiplayerGame.handleRoomUpdate,
\* which raises maxFruitSize to the stored value
SpawnDeliver(p) ==
  /\ TurnDelivered(p)
  /\ maxFruitSize' = [maxFruitSize EXCEPT ![p] = Larger(@, room.maxFruitSize)]
  /\ UNCHANGED <<mergeRest, endVars, notSpawn>>

\* handleCollision on the authority: a merge produces a projectile of size newSize
SpawnMerge(p, newSize) ==
  /\ roomExists
  /\ conn[p] = "connected"
  /\ isHost(currentRoomState[p], p)
  /\ newSize > maxFruitSize[p]
  /\ maxFruitSize' = [maxFruitSize EXCEPT ![p] = newSize]
  /\ UNCHANGED <<docVars, rosterVars, dropVars, turnVars, mergeRest, endVars, notSpawn>>

\* gameLoop settle check; nextTurn draws the next size with getNextFruitSize
SpawnFrame(p, size) ==
  /\ Settled(p, TRUE)
  /\ size \in SpawnSizes(maxFruitSize[p])
  /\ spawnWritten' = IF room'.turnStartTime # room.turnStartTime
                       THEN [size |-> size, known |-> maxFruitSize[p], by |-> "nextTurn"]
                       ELSE spawnWritten
  /\ UNCHANGED <<mergeVars, notSpawn>>

\* cleanupDisconnectedPlayers: the update, with the size of the new turn's spawn
SpawnCleanupUpdate(p, size) ==
  /\ CleanupWritten(p)
  /\ size \in CleanupSpawnSizes(cleanupOp[p].maxFruitSize)
  /\ spawnWritten' = IF cleanupOp[p].needNewTurn /\ ~cleanupOp[p].remove
                       THEN [size |-> size,
                             known |-> Larger(maxFruitSize[p], cleanupOp[p].maxFruitSize),
                             by |-> "cleanup"]
                       ELSE spawnWritten
  /\ UNCHANGED <<dropVars, turnVars, mergeVars, notSpawn>>

NextSpawn ==
  \E p \in P :
    \/ SpawnDeliver(p)
    \/ \E newSize \in MergedSizes : SpawnMerge(p, newSize)
    \/ TurnDelay(p)
    \/ TurnLaunch(p)
    \/ TurnNullWrite(p)
    \/ \E size \in LiveSizes : SpawnFrame(p, size) /\ room'.turnStartTime <= SpawnStamp
    \/ TurnDisconnect(p)
    \/ CleanupGet(p)
    \/ \E size \in LiveSizes : SpawnCleanupUpdate(p, size)

SpecSpawn == InitTurn /\ [][NextSpawn]_vars

\* ------------------------------------------------------------ claims on SpecSpawn

\* the largest spawn size for a writer that knows no larger size than `known'
MaxSpawn(known) ==
  LET capped == IF known - 1 < 5 THEN known - 1 ELSE 5
  IN IF capped > 1 THEN capped ELSE 1

\* C35: every pending spawn size written to the session document (at match
\* start, by a turn advance, by the authority's cleanup) lies between 1 and
\* max(1, min(largest - 1, 5)), largest being the largest size the writer knows.
C35_SpawnSizeInRange ==
  spawnWritten.size \in 1..MaxSpawn(spawnWritten.known)

C35_Witness ==
  /\ spawnWritten.by = "nextTurn"
  /\ spawnWritten.known = 7
  /\ spawnWritten.size = 5

\* ============================================================ SpecSpawnFair
\* The snapshots, merges, disconnections and cleanups of SpecSpawn without the
\* launches and turn advances, every push to a connected participant being
\* received in the end.

NextSpawnFair ==
  \E p \in P :
    \/ SpawnDeliver(p)
    \/ \E newSize \in MergedSizes : SpawnMerge(p, newSize)
    \/ TurnDisconnect(p)
    \/ CleanupGet(p)
    \/ \E size \in LiveSizes : SpawnCleanupUpdate(p, size)

SpecSpawnFair ==
  /\ InitTurn
  /\ [][NextSpawnFair]_vars
  /\ \A p \in P : WF_vars(SpawnDeliver(p))
  /\ \A p \in P : WF_vars(CleanupGet(p))
  /\ \A p \in P : WF_vars(\E size \in LiveSizes : SpawnCleanupUpdate(p, size))

\* ------------------------------------------------------------ claims on SpecSpawnFair

\* C36: the stored maxFruitSize follows the largest size ever produced: once a
\* merge has produced a projectile of size S (some participant knows size S), the
\* stored value is at least S in the end, and with it the largest size known to
\* every connected participant, so that all draw spawn sizes from one range.
C36_StoredLargestSizeFollows ==
  \A S \in MergedSizes :
    (\E p \in P : maxFruitSize[p] >= S)
      ~> (room.maxFruitSize >= S
          /\ \A q \in P : conn[q] = "connected" => maxFruitSize[q] >= S)

\* ============================================================ SpecIndex
\* The turn index that leaveRoom and cleanupDisconnectedPlayers compute, for
\* every roster of up to MAX_PLAYERS participants, every turn index and every
\* set of removed participants that leaves the entitled participant in.

\* the rosters: participants 1..n in joining order
IndexOrders == {[i \in 1..n |-> i] : n \in 1..MAX_PLAYERS}

InitIndex ==
  /\ roomExists = FALSE
  /\ room = LobbyRoom(0, "none")
  /\ conn = [q \in P |-> "left"]
  /\ currentRoomState = [q \in P |-> NoRoom]
  /\ lastEmittedTurnStartTime = [q \in P |-> 0]
  /\ lastTurnStartTime = [q \in P |-> 0]
  /\ turnPhase = [q \in P |-> "waiting"]
  /\ leaveOp = [q \in P |-> IdleLeave]
  /\ cleanupOp = [q \in P |-> IdleCleanup]
  /\ hostLost = {}
  /\ DwellAtRest
  /\ MergeAtRest
  /\ DropAtRest
  /\ BridgeAtRest
  /\ EndAtRest
  /\ LobbyAtRest
  /\ TurnAtRest
  /\ \E order \in IndexOrders :
       \E index \in 0..(Len(order) - 1) :
         \E removed \in SUBSET ({order[i] : i \in DOMAIN order} \ {order[index + 1]}) :
           /\ removed # {}
           /\ indexCase = [NoCase EXCEPT !.order = order, !.index = index,
                                          !.removed = removed]

notIndex == <<docVars, rosterVars, dwellVars, mergeVars, dropVars, bridgeVars, lobbyVars,
              turnVars, gameOvers, slingshotPhase, spawnWritten>>

\* leaveRoom by the one removed participant: the order and index it writes
IndexLeave ==
  /\ indexCase.by = "none"
  /\ \E leaving \in indexCase.removed :
       /\ indexCase.removed = {leaving}
       /\ indexCase' = [indexCase EXCEPT
            !.by = "leaveRoom",
            !.newOrder = SelectSeq(indexCase.order, LAMBDA q : q # leaving),
            !.newIndex = LeaveIndex(indexCase.order, indexCase.index, leaving)]
  /\ UNCHANGED notIndex

\* cleanupDisconnectedPlayers with the removed participants gone from the
\* participants map: the order and index it writes
IndexCleanup ==
  /\ indexCase.by = "none"
  /\ LET active == {indexCase.order[i] : i \in DOMAIN indexCase.order} \ indexCase.removed
     IN indexCase' = [indexCase EXCEPT
          !.by = "cleanup",
          !.newOrder = SelectSeq(indexCase.order, LAMBDA q : q \in active),
          !.newIndex = CleanupIndex(indexCase.order, indexCase.index, active)]
  /\ UNCHANGED notIndex

NextIndexCase ==
  \/ IndexLeave
  \/ IndexCleanup

SpecIndex == InitIndex /\ [][NextIndexCase]_vars

\* ------------------------------------------------------------ claims on SpecIndex

\* C38: removing participants other than the entitled one never changes who is
\* entitled: after leaveRoom or cleanupDisconnectedPlayers the participant at
\* playerOrder[currentPlayerIndex] is the participant that was there before.
C38_EntitledKept ==
  indexCase.by # "none"
    => /\ indexCase.newIndex + 1 \in DOMAIN indexCase.newOrder
       /\ indexCase.newOrder[indexCase.newIndex + 1] = indexCase.order[indexCase.index + 1]

\* ============================================================ SpecPhase
\* The turn cycle of SpecTurnRoster for one launch more (PhaseLaunches), every
\* launch being made by hand before the countdown has run out.

PhaseLaunches == 3

NextPhase ==
  \E p \in P :
    \/ TurnDeliver(p)
    \/ TurnDelay(p)
    \/ TurnLaunch(p) /\ Len(launchLog) < PhaseLaunches
    \/ TurnNullWrite(p)
    \/ TurnFrame(p) /\ room'.turnStartTime <= RosterStamp
    \/ TurnDisconnect(p)
    \/ TurnLeaveStart(p)
    \/ LeaveGet(p)
    \/ LeaveUpdate(p)
    \/ CleanupGet(p)
    \/ CleanupUpdate(p)

SpecPhase == InitTurnRoster /\ [][NextPhase]_vars

\* ------------------------------------------------------------ claims on SpecPhase

\* the phase of p moves one step along the cycle (launchFruit passes through
\* dropping within one call)
PhaseCycleStep(p) ==
  \/ turnPhase[p] = "waiting" /\ turnPhase'[p] = "ready"
  \/ turnPhase[p] = "ready" /\ turnPhase'[p] = "settling"
  \/ turnPhase[p] = "settling" /\ turnPhase'[p] = "waiting"

\* p is in phase settling and nothing will ever end the phase: nothing is left to
\* propagate or to elapse, p is not entitled in its snapshot, so that its frame
\* loop does not advance the turn, and no participant can move the turn on
SettlingForEver(p) ==
  /\ roomExists
  /\ room.status = "playing"
  /\ conn[p] = "connected"
  /\ turnPhase[p] = "settling"
  /\ TurnSettled
  /\ ~isMyTurn(currentRoomState[p], p)
  /\ ~TurnProgressing

\* C39: the turn phase of a participant only moves along waiting -> ready ->
\* dropping -> settling -> waiting (a new turn start may leave it at ready); a turn
\* start received in phase settling does not change the phase; and a participant
\* in phase settling always eventually leaves it, which is stated as: no state is
\* reached in which the participant is in phase settling for ever.
C39_PhaseCycle ==
  /\ [][\A p \in P :
          (conn[p] = "connected" /\ conn'[p] = "connected")
            => /\ turnPhase'[p] # turnPhase[p] => PhaseCycleStep(p)
               /\ (/\ turnPhase[p] = "settling"
                   /\ lastEmittedTurnStartTime'[p] # lastEmittedTurnStartTime[p])
                    => /\ turnPhase'[p] = "settling"
                       /\ lastTurnStartTime'[p] = lastTurnStartTime[p]]_vars
  /\ [](\A p \in P : ~SettlingForEver(p))

=============================================================================
